---------------------------- MODULE Spec2Model ----------------------------
(***************************************************************************)
(* A model of brocolib: the reader of Unity IL2CPP metadata.               *)
(*                                                                         *)
(* Machine words are kept as little-endian byte tuples of their width      *)
(* (a u32 is <<b0, b1, b2, b3>>), exactly as they lie in the files, so     *)
(* that 32- and 64-bit values keep their width.                            *)
(***************************************************************************)
EXTENDS Integers, Sequences, FiniteSets, TLC

VARIABLES checks, pc, gdata, edata, gmd, relocated, roots, cr, mr, stages,
          result, call

vars == <<checks, pc, gdata, edata, gmd, relocated, roots, cr, mr, stages,
          result, call>>

-----------------------------------------------------------------------------
(* Words as little-endian byte tuples.                                     *)

RECURSIVE LE(_, _)
\* the k-byte little-endian encoding of the natural number n
LE(n, k) == IF k = 0 THEN <<>> ELSE <<n % 256>> \o LE(n \div 256, k - 1)

\* a word all of whose bytes are 0xFF: the maximum value of its width
AllOnes(k) == [i \in 1..k |-> 255]

\* the value of a word is below 2^24 (it can be used as a position)
Small(w) == \A i \in 1..Len(w) : i > 3 => w[i] = 0

RECURSIVE Val(_)
\* the value of a word (used only for Small words)
Val(w) == IF w = <<>> THEN 0 ELSE w[1] + 256 * Val(Tail(w))

RECURSIVE BitAnd(_, _)
\* bitwise and of two natural numbers
BitAnd(a, b) ==
    IF a = 0 \/ b = 0 THEN 0
    ELSE (a % 2) * (b % 2) + 2 * BitAnd(a \div 2, b \div 2)

\* bitwise and of two words of the same width
WordAnd(a, b) == [i \in 1..Len(a) |-> BitAnd(a[i], b[i])]

\* a u32 shifted right by n >= 1 bits, as a natural number (below 2^31)
Shr32(w, n) ==
    LET lo == w[1] + 256 * w[2]
        hi == w[3] + 256 * w[4]
    IN  IF n >= 16 THEN hi \div (2 ^ (n - 16))
        ELSE hi * (2 ^ (16 - n)) + lo \div (2 ^ n)

RECURSIVE WordLt(_, _)
\* a < b for two words of the same width
WordLt(a, b) ==
    IF a = <<>> THEN FALSE
    ELSE LET n == Len(a)
         IN  IF a[n] # b[n] THEN a[n] < b[n]
             ELSE WordLt(SubSeq(a, 1, n - 1), SubSeq(b, 1, n - 1))

WordLe(a, b) == a = b \/ WordLt(a, b)

RECURSIVE AddCarry(_, _, _)
\* the sum of two words of the same width and a carry: <<sum bytes..., carry out>>
AddCarry(a, b, c) ==
    IF a = <<>> THEN <<c>>
    ELSE LET s == a[1] + b[1] + c
         IN  <<s % 256>> \o AddCarry(Tail(a), Tail(b), s \div 256)

\* the sum truncated to the width, and whether it overflowed the width
WordAdd(a, b) ==
    LET r == AddCarry(a, b, 0)
    IN  [sum |-> SubSeq(r, 1, Len(a)), overflow |-> r[Len(a) + 1] = 1]

-----------------------------------------------------------------------------
(* Byte cursors (std::io::Cursor over a byte slice).                       *)

\* read_exact of n bytes at position pos: the bytes, or <<>> flagged as eof
CanRead(data, pos, n) == pos + n <= Len(data)

Bytes(data, pos, n) == SubSeq(data, pos + 1, pos + n)


-----------------------------------------------------------------------------
(* Global metadata: the header and the 31 tables (global_metadata.rs).     *)

\* 0xFAB11BAF as it lies in the file
SANITY == <<175, 27, 177, 250>>

VERSION == 31

\* the tables of the metadata! list in header order, each with the widths of
\* the fields of one row (its SIZE is their sum); a string heap has no rows
TableDefs == <<
    [name |-> "string_literal", kind |-> "basic", layout |-> <<4, 4>>],
    [name |-> "string_literal_data", kind |-> "string", layout |-> <<>>],
    [name |-> "string", kind |-> "string", layout |-> <<>>],
    [name |-> "events", kind |-> "basic", layout |-> <<4, 4, 4, 4, 4, 4>>],
    [name |-> "properties", kind |-> "basic", layout |-> <<4, 4, 4, 4, 4>>],
    [name |-> "methods", kind |-> "basic",
     layout |-> <<4, 4, 4, 4, 4, 4, 4, 2, 2, 2, 2>>],
    [name |-> "parameter_default_values", kind |-> "basic", layout |-> <<4, 4, 4>>],
    [name |-> "field_default_values", kind |-> "basic", layout |-> <<4, 4, 4>>],
    [name |-> "field_and_parameter_default_value_data", kind |-> "basic",
     layout |-> <<1>>],
    [name |-> "field_marshaled_sizes", kind |-> "basic", layout |-> <<4, 4, 4>>],
    [name |-> "parameters", kind |-> "basic", layout |-> <<4, 4, 4>>],
    [name |-> "fields", kind |-> "basic", layout |-> <<4, 4, 4>>],
    [name |-> "generic_parameters", kind |-> "basic",
     layout |-> <<4, 4, 2, 2, 2, 2>>],
    [name |-> "generic_parameter_constraints", kind |-> "basic", layout |-> <<4>>],
    [name |-> "generic_containers", kind |-> "basic", layout |-> <<4, 4, 4, 4>>],
    [name |-> "nested_types", kind |-> "basic", layout |-> <<4>>],
    [name |-> "interfaces", kind |-> "basic", layout |-> <<4>>],
    [name |-> "vtable_methods", kind |-> "basic", layout |-> <<4>>],
    [name |-> "interface_offsets", kind |-> "basic", layout |-> <<4, 4>>],
    [name |-> "type_definitions", kind |-> "basic",
     layout |-> <<4, 4, 4, 4, 4, 4, 4, 4, 4, 4, 4, 4, 4, 4, 4, 4,
                  2, 2, 2, 2, 2, 2, 2, 2, 4, 4>>],
    [name |-> "images", kind |-> "basic",
     layout |-> <<4, 4, 4, 4, 4, 4, 4, 4, 4, 4>>],
    [name |-> "assemblies", kind |-> "basic",
     layout |-> <<4, 4, 4, 4, 4, 4, 4, 4, 4, 4, 4, 4, 4, 4, 8>>],
    [name |-> "field_refs", kind |-> "basic", layout |-> <<4, 4>>],
    [name |-> "referenced_assemblies", kind |-> "basic", layout |-> <<4>>],
    [name |-> "attribute_data", kind |-> "basic", layout |-> <<1>>],
    [name |-> "attribute_data_range", kind |-> "basic", layout |-> <<4, 4>>],
    [name |-> "unresolved_indirect_call_parameter_types", kind |-> "basic",
     layout |-> <<4>>],
    [name |-> "unresolved_indirect_call_parameter_ranges", kind |-> "basic",
     layout |-> <<4, 4>>],
    [name |-> "windows_runtime_type_names", kind |-> "basic", layout |-> <<4, 4>>],
    [name |-> "windows_runtime_strings", kind |-> "string", layout |-> <<>>],
    [name |-> "exported_type_definitions", kind |-> "basic", layout |-> <<4>>] >>

NumTables == Len(TableDefs)

RECURSIVE SumSeq(_)
SumSeq(s) == IF s = <<>> THEN 0 ELSE s[1] + SumSeq(Tail(s))

\* <$ty>::SIZE of a row of table i
RowSize(i) == SumSeq(TableDefs[i].layout)

\* Il2CppGlobalMetadataHeader: sanity, version, then one OffsetLen per table
HeaderSize == 8 + 8 * NumTables

\* Il2CppGlobalMetadataHeader::deserialize on a cursor at 0: every field is
\* read in order with read_exact, so a file that ends inside the header fails
ReadHeader(data) ==
    IF ~CanRead(data, 0, HeaderSize) THEN [ok |-> FALSE]
    ELSE [ok |-> TRUE,
          sanity |-> Bytes(data, 0, 4),
          version |-> Bytes(data, 4, 4),
          tables |-> [i \in 1..NumTables |->
                        [offset |-> Bytes(data, 8 * i, 4),
                         len |-> Bytes(data, 8 * i + 4, 4)]]]

RECURSIVE ReadFields(_, _, _)
\* one row: its fields read in order from pos, each kept as its word
ReadFields(data, pos, layout) ==
    IF layout = <<>> THEN <<>>
    ELSE <<Bytes(data, pos, layout[1])>>
           \o ReadFields(data, pos + layout[1], Tail(layout))

RECURSIVE ReadRows(_, _, _, _)
\* the loop of basic_table!::read: count rows read one after the other; a row
\* that does not fit in the rest of the file is an io error (UnexpectedEof)
ReadRows(data, pos, i, count) ==
    IF count = 0 THEN [kind |-> "Ok", rows |-> <<>>]
    ELSE IF ~CanRead(data, pos, RowSize(i)) THEN [kind |-> "Err"]
    ELSE LET rest == ReadRows(data, pos + RowSize(i), i, count - 1)
         IN  IF rest.kind = "Err" THEN rest
             ELSE [kind |-> "Ok",
                   rows |-> <<ReadFields(data, pos, TableDefs[i].layout)>>
                              \o rest.rows]

\* basic_table!::read counting a row for the bytes that do not fill one
BasicTableRead_round_up(data, i, offset, size) ==
    IF ~Small(size) \/ ~Small(offset) THEN [kind |-> "Err"]
    ELSE ReadRows(data, Val(offset), i,
                  (Val(size) + RowSize(i) - 1) \div RowSize(i))

\* basic_table!::read with the cursor at offset: count = size / SIZE rows.
\* A size or an offset of 2^24 or more is past the end of every file of the
\* model, so the first row read fails.
BasicTableRead(data, i, offset, size) ==
    IF ~Small(size) THEN [kind |-> "Err"]
    ELSE LET count == Val(size) \div RowSize(i)
         IN  IF count = 0 THEN [kind |-> "Ok", rows |-> <<>>]
             ELSE IF ~Small(offset) THEN [kind |-> "Err"]
             ELSE ReadRows(data, Val(offset), i, count)

\* string_data_table!::read: the slice data[start..start + size] of the file;
\* slicing past the end of the file panics
StringTableRead(data, offset, size) ==
    IF ~Small(offset) \/ ~Small(size) THEN [kind |-> "Panic"]
    ELSE IF Val(offset) + Val(size) > Len(data) THEN [kind |-> "Panic"]
    ELSE [kind |-> "Ok", data |-> Bytes(data, Val(offset), Val(size))]

\* Default::default() of a table: no rows, or an empty slice
EmptyTable(i) ==
    IF TableDefs[i].kind = "basic" THEN [kind |-> "basic", table |-> <<>>]
    ELSE [kind |-> "string", data |-> <<>>]

\* ReadMetadataTable::read of table i with the cursor set to offset
ReadTableAt(data, i, offset, size) ==
    IF TableDefs[i].kind = "basic"
    THEN LET r == BasicTableRead(data, i, offset, size)
         IN  IF r.kind = "Ok"
             THEN [kind |-> "Ok", value |-> [kind |-> "basic", table |-> r.rows]]
             ELSE [kind |-> "Err"]
    ELSE LET r == StringTableRead(data, offset, size)
         IN  IF r.kind = "Ok"
             THEN [kind |-> "Ok", value |-> [kind |-> "string", data |-> r.data]]
             ELSE [kind |-> "Panic"]

\* TableField reading every table, of length zero or not
TableField_unguarded(data, i, ol) ==
    [seek |-> TRUE, read |-> ReadTableAt(data, i, ol.offset, ol.len)]

\* one field of the GlobalMetadata literal: the table is read only when its
\* recorded length is not zero; seek tells whether the cursor was moved
TableField(data, i, ol) ==
    IF ol.len # LE(0, 4)
    THEN [seek |-> TRUE, read |-> ReadTableAt(data, i, ol.offset, ol.len)]
    ELSE [seek |-> FALSE, read |-> [kind |-> "Ok", value |-> EmptyTable(i)]]

\* the fields of the GlobalMetadata literal, each as it is read when the
\* fields before it have been read
TableFields(data, header) ==
    [i \in 1..NumTables |-> TableField(data, i, header.tables[i])]

\* the first field from the i-th on whose read fails, NumTables + 1 if none
FirstFailure(fields, i) ==
    IF \A j \in i..NumTables : fields[j].read.kind = "Ok" THEN NumTables + 1
    ELSE CHOOSE j \in i..NumTables :
             /\ fields[j].read.kind # "Ok"
             /\ \A k \in i..(j - 1) : fields[k].read.kind = "Ok"

\* the fields from the i-th up to the one at stop: the tables read are put
\* after acc and the cursor moves are added to seeks; the field at stop, if
\* there is one, ends the function with its io error (returned as Bin) or
\* its panic
TablesUpTo(fields, i, stop, acc, seeks) ==
    IF stop > NumTables
    THEN [kind |-> "Ok",
          tables |-> acc \o [j \in 1..(NumTables + 1 - i) |-> fields[i + j - 1].read.value],
          seeks |-> seeks \cup {j \in i..NumTables : fields[j].seek}]
    ELSE IF fields[stop].read.kind = "Err"
    THEN [kind |-> "Err", err |-> "Bin", arg |-> <<>>,
          seeks |-> seeks \cup {j \in i..stop : fields[j].seek}]
    ELSE [kind |-> "Panic", seeks |-> seeks \cup {j \in i..stop : fields[j].seek}]

\* GlobalMetadata::deserialize: the tables in header order, stopping at the
\* first one that fails (an io error is returned as Bin, a panic aborts)
DeserializeTables(data, header, i, acc, seeks) ==
    TablesUpTo(TableFields(data, header), i,
               FirstFailure(TableFields(data, header), i), acc, seeks)

\* deserialize checking the version before the sanity word
Deserialize_version_first(data) ==
    LET header == ReadHeader(data)
    IN  IF ~header.ok
        THEN [kind |-> "Err", err |-> "Bin", arg |-> <<>>, seeks |-> {}]
        ELSE IF header.version # LE(VERSION, 4)
        THEN [kind |-> "Err", err |-> "VersionCheck", arg |-> header.version,
              seeks |-> {}]
        ELSE IF header.sanity # SANITY
        THEN [kind |-> "Err", err |-> "SanityCheck", arg |-> <<>>, seeks |-> {}]
        ELSE DeserializeTables(data, header, 1, <<>>, {})

\* deserialize reporting the version it expects in place of the one it read
Deserialize_expected_version(data) ==
    LET header == ReadHeader(data)
    IN  IF ~header.ok
        THEN [kind |-> "Err", err |-> "Bin", arg |-> <<>>, seeks |-> {}]
        ELSE IF header.sanity # SANITY
        THEN [kind |-> "Err", err |-> "SanityCheck", arg |-> <<>>, seeks |-> {}]
        ELSE IF header.version # LE(VERSION, 4)
        THEN [kind |-> "Err", err |-> "VersionCheck", arg |-> LE(VERSION, 4),
              seeks |-> {}]
        ELSE DeserializeTables(data, header, 1, <<>>, {})

\* global_metadata::deserialize
Deserialize(data) ==
    LET header == ReadHeader(data)
    IN  IF ~header.ok
        THEN [kind |-> "Err", err |-> "Bin", arg |-> <<>>, seeks |-> {}]
        ELSE IF header.sanity # SANITY
        THEN [kind |-> "Err", err |-> "SanityCheck", arg |-> <<>>, seeks |-> {}]
        ELSE IF header.version # LE(VERSION, 4)
        THEN [kind |-> "Err", err |-> "VersionCheck", arg |-> header.version,
              seeks |-> {}]
        ELSE DeserializeTables(data, header, 1, <<>>, {})

-----------------------------------------------------------------------------
(* Index, range, token and encoded-method-index primitives.                *)

\* Token::ty
Token_ty(t) == WordAnd(t, <<0, 0, 0, 255>>)

\* Token::rid
Token_rid(t) == WordAnd(t, <<255, 255, 255, 0>>)

\* decode shifting the kind bits by 28
EncodedMethodIndex_decode_shift28(x) ==
    LET ty == Shr32(WordAnd(x, <<0, 0, 0, 224>>), 28)
        idx == Shr32(WordAnd(x, <<254, 255, 255, 31>>), 1)
        invalid == Val(WordAnd(x, <<1, 0, 0, 0>>))
    IN  CASE ty = 0 ->
               (CASE invalid = 0 -> [tag |-> "Invalid", why |-> "NoData"]
                  [] invalid = 1 -> [tag |-> "Invalid", why |-> "AmbiguousMethod"]
                  [] OTHER -> [tag |-> "Panic"])
          [] ty = 1 -> [tag |-> "TypeInfo", idx |-> idx]
          [] ty = 2 -> [tag |-> "Il2CppType", idx |-> idx]
          [] ty = 3 -> [tag |-> "MethodDef", idx |-> idx]
          [] ty = 4 -> [tag |-> "FieldInfo", idx |-> idx]
          [] ty = 5 -> [tag |-> "StringLiteral", idx |-> idx]
          [] ty = 6 -> [tag |-> "MethodRef", idx |-> idx]
          [] ty = 7 -> [tag |-> "FieldRva", idx |-> idx]
          [] OTHER -> [tag |-> "Panic"]

\* EncodedMethodIndex::decode
EncodedMethodIndex_decode(x) ==
    LET ty == Shr32(WordAnd(x, <<0, 0, 0, 224>>), 29)
        idx == Shr32(WordAnd(x, <<254, 255, 255, 31>>), 1)
        invalid == Val(WordAnd(x, <<1, 0, 0, 0>>))
    IN  CASE ty = 0 ->
               (CASE invalid = 0 -> [tag |-> "Invalid", why |-> "NoData"]
                  [] invalid = 1 -> [tag |-> "Invalid", why |-> "AmbiguousMethod"]
                  [] OTHER -> [tag |-> "Panic"])
          [] ty = 1 -> [tag |-> "TypeInfo", idx |-> idx]
          [] ty = 2 -> [tag |-> "Il2CppType", idx |-> idx]
          [] ty = 3 -> [tag |-> "MethodDef", idx |-> idx]
          [] ty = 4 -> [tag |-> "FieldInfo", idx |-> idx]
          [] ty = 5 -> [tag |-> "StringLiteral", idx |-> idx]
          [] ty = 6 -> [tag |-> "MethodRef", idx |-> idx]
          [] ty = 7 -> [tag |-> "FieldRva", idx |-> idx]
          [] OTHER -> [tag |-> "Panic"]

\* index_type!::is_valid: the index is not <$ty>::MAX
is_valid(idx) == idx # AllOnes(Len(idx))

\* `as` between unsigned integer types: zero-extend or truncate to k bytes
CastTo(w, k) == [i \in 1..k |-> IF i <= Len(w) THEN w[i] ELSE 0]

\* index_type!::make_range. self.0 + count is an addition in the index type:
\* on overflow a build with overflow checks panics, one without wraps around
make_range(self, count, overflowChecks) ==
    IF count # LE(0, Len(count))
    THEN LET s == WordAdd(self, count)
         IN  IF s.overflow /\ overflowChecks THEN [kind |-> "Panic"]
             ELSE [kind |-> "Range", start |-> self, end |-> s.sum]
    ELSE [kind |-> "Range", start |-> LE(0, Len(self)), end |-> LE(0, Len(self))]

\* basic_table! Index<R: RangeBounds>: &self.table[(start, end)] of a table
\* of tlen rows; a slice whose start exceeds its end, or whose end exceeds the
\* length, panics. The slice is named by its first row and its row after the
\* last, both as usize.
TableSlice(tlen, start, end) ==
    LET lo == CastTo(start, 8)
        hi == CastTo(end, 8)
    IN  IF WordLt(hi, lo) \/ WordLt(LE(tlen, 8), hi) THEN [kind |-> "Panic"]
        ELSE [kind |-> "Slice", lo |-> lo, hi |-> hi]

\* range_helper!: the rows of a table of tlen rows named by a start index and
\* a count field, the count cast to the index type
range_helper(start, count, tlen, overflowChecks) ==
    LET range == make_range(start, CastTo(count, Len(start)), overflowChecks)
    IN  IF range.kind = "Panic" THEN range
        ELSE TableSlice(tlen, range.start, range.end)

\* basic_table! Index<$idx_name>: &self.table[index.0 as usize]
TableIndex(tlen, idx) ==
    IF WordLt(CastTo(idx, 8), LE(tlen, 8))
    THEN [kind |-> "Row", row |-> CastTo(idx, 8)]
    ELSE [kind |-> "Panic"]

\* field_helper!: the row of the target table at the index field
field_helper(idx, tlen) == TableIndex(tlen, idx)

\* field_helper_optional!: None for an invalid index, else the row
field_helper_optional(idx, tlen) ==
    IF is_valid(idx) THEN TableIndex(tlen, idx) ELSE [kind |-> "None"]

\* the cross-link accessors over record tables, each with the macro that
\* defines it and the width of its index field
Accessors == {
    [record |-> "Il2CppEventDefinition", name |-> "add_method",
     helper |-> "field_helper", width |-> 4],
    [record |-> "Il2CppEventDefinition", name |-> "remove_method",
     helper |-> "field_helper", width |-> 4],
    [record |-> "Il2CppEventDefinition", name |-> "raise_method",
     helper |-> "field_helper", width |-> 4],
    [record |-> "Il2CppMethodDefinition", name |-> "declaring_type",
     helper |-> "field_helper", width |-> 4],
    [record |-> "Il2CppMethodDefinition", name |-> "generic_container",
     helper |-> "field_helper_optional", width |-> 4],
    [record |-> "Il2CppTypeDefinition", name |-> "generic_container",
     helper |-> "field_helper", width |-> 4],
    [record |-> "Il2CppImageDefinition", name |-> "assembly",
     helper |-> "field_helper", width |-> 4],
    [record |-> "Il2CppImageDefinition", name |-> "entry_point",
     helper |-> "field_helper", width |-> 4],
    [record |-> "Il2CppParameterDefaultValue", name |-> "parameter",
     helper |-> "field_helper", width |-> 4],
    [record |-> "Il2CppFieldDefaultValue", name |-> "field",
     helper |-> "field_helper", width |-> 4],
    [record |-> "Il2CppFieldMarshaledSize", name |-> "field",
     helper |-> "field_helper", width |-> 4],
    [record |-> "Il2CppGenericParameter", name |-> "owner",
     helper |-> "field_helper", width |-> 4],
    [record |-> "Il2CppAssemblyDefinition", name |-> "image",
     helper |-> "field_helper", width |-> 4] }

\* the accessor a applied to a record whose index field is idx
Accessor(a, idx, tlen) ==
    IF a.helper = "field_helper_optional" THEN field_helper_optional(idx, tlen)
    ELSE field_helper(idx, tlen)

-----------------------------------------------------------------------------
(* The ELF view (runtime_metadata/elf.rs).                                 *)
(*                                                                         *)
(* An ELF input is what object::ElfFile64 presents of it: whether it       *)
(* parses, its bytes, its loadable segments in file order (address, size   *)
(* in memory, file_start, file_size), its .bss section, its dynamic        *)
(* symbols and its dynamic relocations. Addresses read from the bytes are  *)
(* 8-byte words; the segments of the model lie below 2^24.                 *)

Err(e, a) == [kind |-> "Err", err |-> e, arg |-> a]

Panic == [kind |-> "Panic"]

Ok(v) == [kind |-> "Ok", value |-> v]

\* addr_in_bss taking the address after the last byte of .bss too
addr_in_bss_inclusive(elf, vaddr) ==
    IF elf.bss.present
    THEN /\ Small(vaddr)
         /\ elf.bss.address <= Val(vaddr)
         /\ Val(vaddr) - elf.bss.address <= elf.bss.size
    ELSE FALSE

\* addr_in_bss
addr_in_bss(elf, vaddr) ==
    IF elf.bss.present
    THEN /\ Small(vaddr)
         /\ elf.bss.address <= Val(vaddr)
         /\ Val(vaddr) - elf.bss.address < elf.bss.size
    ELSE FALSE

RECURSIVE SegmentWalk_last(_, _, _)
\* the loop of vaddr_conv going on after a segment that holds the address:
\* the last one is taken
SegmentWalk_last(elf, v, i) ==
    IF i > Len(elf.segments) THEN [kind |-> "None"]
    ELSE IF SegmentWalk_last(elf, v, i + 1).kind = "Ok"
    THEN SegmentWalk_last(elf, v, i + 1)
    ELSE IF elf.segments[i].address <= v /\ v - elf.segments[i].address < elf.segments[i].size
    THEN [kind |-> "Ok",
          value |-> elf.segments[i].file_start + (v - elf.segments[i].address)]
    ELSE [kind |-> "None"]

RECURSIVE SegmentWalk(_, _, _)
\* the loop of vaddr_conv over the segments from the i-th on
SegmentWalk(elf, v, i) ==
    IF i > Len(elf.segments) THEN [kind |-> "None"]
    ELSE LET segment == elf.segments[i]
         IN  IF segment.address <= v /\ v - segment.address < segment.size
             THEN [kind |-> "Ok", value |-> segment.file_start + (v - segment.address)]
             ELSE SegmentWalk(elf, v, i + 1)

\* vaddr_conv: the file offset of a virtual address
vaddr_conv(elf, vaddr) ==
    IF ~Small(vaddr) THEN Err("VAddrConv", vaddr)
    ELSE LET r == SegmentWalk(elf, Val(vaddr), 1)
         IN  IF r.kind = "Ok" THEN r ELSE Err("VAddrConv", vaddr)

(* bad64::disasm. The model keeps the 4-byte instruction width and a       *)
(* decoder of its own encoding: byte 0 is the operation (1 ADRP, 2 ADD     *)
(* immediate, 3 LDR with offset, 4 BL, 5 BLR, 255 undecodable, anything    *)
(* else some other instruction), byte 1 holds the first register in its    *)
(* high and the second in its low four bits, bytes 2 and 3 the immediate,  *)
(* which for ADRP and BL is the label and for LDR is signed.               *)
Decode(code) ==
    LET imm == code[3] + 256 * code[4]
        a == code[2] \div 16
        b == code[2] % 16
    IN  CASE code[1] = 1 -> [op |-> "ADRP", a |-> a, b |-> a, imm |-> imm]
          [] code[1] = 2 -> [op |-> "ADD", a |-> a, b |-> b, imm |-> imm]
          [] code[1] = 3 -> [op |-> "LDR", a |-> a, b |-> b,
                             imm |-> IF imm >= 32768 THEN imm - 65536 ELSE imm]
          [] code[1] = 4 -> [op |-> "BL", a |-> 0, b |-> 0, imm |-> imm]
          [] code[1] = 5 -> [op |-> "BLR", a |-> a, b |-> a, imm |-> 0]
          [] code[1] = 255 -> [op |-> "undecodable", a |-> 0, b |-> 0, imm |-> 0]
          [] OTHER -> [op |-> "other", a |-> 0, b |-> 0, imm |-> 0]

RECURSIVE try_disassemble(_)
\* try_disassemble: the instructions of a code slice, or the first decode error
try_disassemble(code) ==
    IF Len(code) < 4 THEN [kind |-> "Ok", value |-> <<>>]
    ELSE LET ins == Decode(SubSeq(code, 1, 4))
         IN  IF ins.op = "undecodable" THEN Err("Disassemble", <<>>)
             ELSE LET rest == try_disassemble(SubSeq(code, 5, Len(code)))
                  IN  IF rest.kind = "Ok"
                      THEN [kind |-> "Ok", value |-> <<ins>> \o rest.value]
                      ELSE rest

\* map with key k set to v
MapPut(map, k, v) == [x \in DOMAIN map \cup {k} |-> IF x = k THEN v ELSE map[x]]

EmptyMap == [x \in {} |-> 0]

\* the two's complement encoding of a (possibly negative) small integer
Signed64(imm) ==
    IF imm >= 0 THEN LE(imm, 8)
    ELSE WordAdd([i \in 1..8 |-> 255 - LE(-imm, 8)[i]], LE(1, 8)).sum

\* the sign bit of an i64
Negative(w) == w[8] >= 128

\* v as i64 + imm, as u64: the two's complement sum, which overflows i64 when
\* both operands have one sign and the sum has the other
AddSigned(v, imm) ==
    LET sum == WordAdd(v, Signed64(imm)).sum
    IN  [sum |-> sum,
         overflow |-> /\ Negative(v) = (imm < 0)
                      /\ Negative(sum) # Negative(v)]

\* the LDR arm of analyze_reg_rel: the 8-byte word of the relocated bytes at
\* the converted address; both unwraps and the slice panic on failure
LoadReg(elf, elf_rel, v, imm, overflowChecks) ==
    LET addr == AddSigned(v, imm)
        offset == vaddr_conv(elf, addr.sum)
    IN  IF addr.overflow /\ overflowChecks THEN Panic
        ELSE IF offset.kind # "Ok" THEN Panic
        ELSE IF ~CanRead(elf_rel, offset.value, 8) THEN Panic
        ELSE [kind |-> "Ok", value |-> Bytes(elf_rel, offset.value, 8)]

RECURSIVE analyze_reg_rel_any_add(_, _, _, _, _, _)
\* analyze_reg_rel with an ADD arm that does not compare its two registers
analyze_reg_rel_any_add(elf, elf_rel, instructions, i, map, overflowChecks) ==
    IF i > Len(instructions) THEN [kind |-> "Ok", value |-> map]
    ELSE LET ins == instructions[i]
         IN  CASE ins.op = "ADRP" ->
                    analyze_reg_rel_any_add(elf, elf_rel, instructions, i + 1,
                                    MapPut(map, ins.a, LE(ins.imm, 8)),
                                    overflowChecks)
               [] ins.op = "ADD" /\ ins.a \in DOMAIN map ->
                    LET s == WordAdd(map[ins.a], LE(ins.imm, 8))
                    IN  IF s.overflow /\ overflowChecks THEN Panic
                        ELSE analyze_reg_rel_any_add(elf, elf_rel, instructions, i + 1,
                                             MapPut(map, ins.a, s.sum),
                                             overflowChecks)
               [] ins.op = "LDR" /\ ins.a = ins.b /\ ins.a \in DOMAIN map ->
                    LET v == LoadReg(elf, elf_rel, map[ins.a], ins.imm,
                                     overflowChecks)
                    IN  IF v.kind # "Ok" THEN v
                        ELSE analyze_reg_rel_any_add(elf, elf_rel, instructions, i + 1,
                                             MapPut(map, ins.a, v.value),
                                             overflowChecks)
               [] OTHER -> analyze_reg_rel_any_add(elf, elf_rel, instructions, i + 1, map,
                                           overflowChecks)

RECURSIVE analyze_reg_rel(_, _, _, _, _, _)
\* analyze_reg_rel: the register map after the instructions from the i-th on.
\* The additions are u64 and i64 additions: on overflow a build with overflow
\* checks panics, one without wraps around.
analyze_reg_rel(elf, elf_rel, instructions, i, map, overflowChecks) ==
    IF i > Len(instructions) THEN [kind |-> "Ok", value |-> map]
    ELSE LET ins == instructions[i]
         IN  CASE ins.op = "ADRP" ->
                    analyze_reg_rel(elf, elf_rel, instructions, i + 1,
                                    MapPut(map, ins.a, LE(ins.imm, 8)),
                                    overflowChecks)
               [] ins.op = "ADD" /\ ins.a = ins.b /\ ins.a \in DOMAIN map ->
                    LET s == WordAdd(map[ins.a], LE(ins.imm, 8))
                    IN  IF s.overflow /\ overflowChecks THEN Panic
                        ELSE analyze_reg_rel(elf, elf_rel, instructions, i + 1,
                                             MapPut(map, ins.a, s.sum),
                                             overflowChecks)
               [] ins.op = "LDR" /\ ins.a = ins.b /\ ins.a \in DOMAIN map ->
                    LET v == LoadReg(elf, elf_rel, map[ins.a], ins.imm,
                                     overflowChecks)
                    IN  IF v.kind # "Ok" THEN v
                        ELSE analyze_reg_rel(elf, elf_rel, instructions, i + 1,
                                             MapPut(map, ins.a, v.value),
                                             overflowChecks)
               [] OTHER -> analyze_reg_rel(elf, elf_rel, instructions, i + 1, map,
                                           overflowChecks)

RECURSIVE BlScan(_, _, _, _, _)
\* the loop of nth_bl from its i-th round on: the 4 bytes at offset + 4 i of
\* the ELF bytes are sliced (a slice past the end panics) and decoded
BlScan(elf, offset, i, count, n) ==
    LET off == offset + 4 * i
    IN  IF ~CanRead(elf.data, off, 4) THEN Panic
        ELSE LET ins == Decode(Bytes(elf.data, off, 4))
             IN  IF ins.op = "undecodable" THEN Err("Disassemble", <<>>)
                 ELSE IF ins.op = "BL"
                 THEN IF count + 1 = n
                      THEN [kind |-> "Ok", value |-> LE(ins.imm, 8)]
                      ELSE BlScan(elf, offset, i + 1, count + 1, n)
                 ELSE BlScan(elf, offset, i + 1, count, n)

\* nth_bl: the target of the n-th BL at or after addr
nth_bl(elf, addr, n) ==
    LET offset == vaddr_conv(elf, addr)
    IN  IF offset.kind # "Ok" THEN offset
        ELSE BlScan(elf, offset.value, 0, 0, n)

\* the i-th round of the loop of find_blr is its last: the slice of the ELF
\* bytes panics, the bytes do not decode, or the instruction is a BLR
BlrRoundEnds(elf, offset, i) ==
    \/ ~CanRead(elf.data, offset + 4 * i, 4)
    \/ Decode(Bytes(elf.data, offset + 4 * i, 4)).op \in {"undecodable", "BLR"}

\* what the round that ends the loop leaves
BlrRound(elf, off) ==
    IF ~CanRead(elf.data, off, 4) THEN Panic
    ELSE IF Decode(Bytes(elf.data, off, 4)).op = "undecodable"
    THEN Err("Disassemble", <<>>)
    ELSE [kind |-> "Ok", found |-> TRUE, offset |-> off,
          reg |-> Decode(Bytes(elf.data, off, 4)).a]

\* the loop of find_blr from its i-th round on: the rounds go on up to the
\* first that ends the loop, and no BLR is found when none of them does
BlrScan(elf, offset, i, limit) ==
    IF \A j \in i..(limit - 1) : ~BlrRoundEnds(elf, offset, j)
    THEN [kind |-> "Ok", found |-> FALSE]
    ELSE BlrRound(elf,
                  offset + 4 * (CHOOSE j \in i..(limit - 1) :
                                   /\ BlrRoundEnds(elf, offset, j)
                                   /\ \A k \in i..(j - 1) :
                                         ~BlrRoundEnds(elf, offset, k)))

\* find_blr: the file offset and the register of the first BLR within limit
\* instructions of addr
find_blr(elf, addr, limit) ==
    LET offset == vaddr_conv(elf, addr)
    IN  IF offset.kind # "Ok" THEN offset
        ELSE BlrScan(elf, offset.value, 0, limit)

\* write_u64 adding the word to the eight bytes it finds
WriteAt_add(buf, pos, word) ==
    LET n == IF pos + Len(word) > Len(buf) THEN pos + Len(word) ELSE Len(buf)
        old == [i \in 1..Len(word) |-> IF pos + i <= Len(buf) THEN buf[pos + i] ELSE 0]
    IN  [i \in 1..n |->
           IF i > pos /\ i <= pos + Len(word) THEN WordAdd(old, word).sum[i - pos]
           ELSE IF i <= Len(buf) THEN buf[i] ELSE 0]

\* Cursor<&mut Vec<u8>>::write_u64 at pos: the vector grows (zero filled) when
\* the write reaches past its end
WriteAt(buf, pos, word) ==
    LET n == IF pos + Len(word) > Len(buf) THEN pos + Len(word) ELSE Len(buf)
    IN  [i \in 1..n |->
           IF i > pos /\ i <= pos + Len(word) THEN word[i - pos]
           ELSE IF i <= Len(buf) THEN buf[i] ELSE 0]

R_AARCH64_RELATIVE == 1027

RECURSIVE RelocLoop_any_kind(_, _, _)
\* the loop of process_relocations applying the relocations of every kind
RelocLoop_any_kind(elf, elf_rel, i) ==
    IF i > Len(elf.relocs) THEN [kind |-> "Ok", value |-> elf_rel]
    ELSE IF ~elf.relocs[i].absolute THEN Panic
    ELSE IF vaddr_conv(elf, elf.relocs[i].addr).kind # "Ok"
    THEN vaddr_conv(elf, elf.relocs[i].addr)
    ELSE RelocLoop_any_kind(
             elf,
             WriteAt(elf_rel, vaddr_conv(elf, elf.relocs[i].addr).value,
                     elf.relocs[i].addend),
             i + 1)

RECURSIVE RelocLoop(_, _, _)
\* the loop of process_relocations from the i-th relocation on
RelocLoop(elf, elf_rel, i) ==
    IF i > Len(elf.relocs) THEN [kind |-> "Ok", value |-> elf_rel]
    ELSE LET rel == elf.relocs[i]
         IN  IF rel.kind # R_AARCH64_RELATIVE THEN RelocLoop(elf, elf_rel, i + 1)
             ELSE IF ~rel.absolute THEN Panic
             ELSE LET pos == vaddr_conv(elf, rel.addr)
                  IN  IF pos.kind # "Ok" THEN pos
                      ELSE RelocLoop(elf, WriteAt(elf_rel, pos.value, rel.addend),
                                     i + 1)

\* process_relocations: a copy of the ELF bytes with the relocations applied
process_relocations(elf) == RelocLoop(elf, elf.data, 1)

\* elf.dynamic_symbols().find(|s| s.name() == Ok(name)): the address of the
\* first dynamic symbol of that name, or MissingIl2CppInit
FindSymbol(elf, name) ==
    LET hits == {i \in 1..Len(elf.dynsyms) : elf.dynsyms[i].name = name}
    IN  IF hits = {} THEN Err("MissingIl2CppInit", <<>>)
        ELSE Ok(elf.dynsyms[CHOOSE i \in hits : \A j \in hits : i <= j].address)

BlrLimit == 200

SetterInstructions == 7

RECURSIVE find_registration_from(_, _, _, _, _, _)
\* find_registration from one of its statements on: at names the local the
\* statement binds, r is the value of its right-hand side (an error or a
\* panic ends the function) and l holds the locals bound before it. Slicing
\* the ELF bytes past their end and indexing a register map with a register
\* it does not hold panic.
find_registration_from(at, r, l, elf, elf_rel, overflowChecks) ==
    CASE r.kind # "Ok" -> r
      [] at = "il2cpp_init" ->
           find_registration_from("runtime_init", nth_bl(elf, r.value, 2), l,
                                  elf, elf_rel, overflowChecks)
      [] at = "runtime_init" ->
           find_registration_from("runtime_init_offset", vaddr_conv(elf, r.value),
                                  [l EXCEPT !.runtime_init = r.value],
                                  elf, elf_rel, overflowChecks)
      [] at = "runtime_init_offset" ->
           find_registration_from("blr", find_blr(elf, l.runtime_init, BlrLimit),
                                  [l EXCEPT !.runtime_init_offset = r.value],
                                  elf, elf_rel, overflowChecks)
      [] at = "blr" ->
           IF ~r.found THEN Err("MissingBlr", <<>>)
           ELSE find_registration_from(
                    "instructions",
                    try_disassemble(Bytes(elf.data, l.runtime_init_offset,
                                          r.offset - l.runtime_init_offset)),
                    [l EXCEPT !.blr_reg = r.reg], elf, elf_rel, overflowChecks)
      [] at = "instructions" ->
           find_registration_from(
               "regs",
               analyze_reg_rel(elf, elf_rel, r.value, 1, EmptyMap, overflowChecks),
               l, elf, elf_rel, overflowChecks)
      [] at = "regs" ->
           IF l.blr_reg \notin DOMAIN r.value THEN Panic
           ELSE find_registration_from("fn_addr",
                                       vaddr_conv(elf, r.value[l.blr_reg]), l,
                                       elf, elf_rel, overflowChecks)
      [] at = "fn_addr" ->
           IF ~CanRead(elf.data, r.value, SetterInstructions * 4) THEN Panic
           ELSE find_registration_from(
                    "setter_instructions",
                    try_disassemble(Bytes(elf.data, r.value,
                                          SetterInstructions * 4)),
                    l, elf, elf_rel, overflowChecks)
      [] at = "setter_instructions" ->
           find_registration_from(
               "setter_regs",
               analyze_reg_rel(elf, elf_rel, r.value, 1, EmptyMap, overflowChecks),
               l, elf, elf_rel, overflowChecks)
      [] at = "setter_regs" ->
           IF 0 \notin DOMAIN r.value \/ 1 \notin DOMAIN r.value THEN Panic
           ELSE [kind |-> "Ok", cr |-> r.value[0], mr |-> r.value[1]]

\* find_registration: the addresses of g_CodeRegistration and
\* g_MetadataRegistration
find_registration(elf, elf_rel, overflowChecks) ==
    find_registration_from("il2cpp_init", FindSymbol(elf, "il2cpp_init"),
                           [runtime_init |-> <<>>, runtime_init_offset |-> 0,
                            blr_reg |-> 0],
                           elf, elf_rel, overflowChecks)

-----------------------------------------------------------------------------
(* The runtime graph reader (runtime_metadata/elf.rs).                     *)

\* ElfReader::new
ElfReader(elf, elf_rel) == [elf |-> elf, elf_rel |-> elf_rel]

\* ElfReader::make_cur: the position of a cursor over the relocated bytes
make_cur(reader, vaddr) == vaddr_conv(reader.elf, vaddr)

RECURSIVE strlen(_, _, _)
\* strlen: the bytes before the first NUL at or after offset; indexing past
\* the end of the data panics (len = -1 stands for the panic)
strlen(data, offset, len) ==
    IF offset + len >= Len(data) THEN -1
    ELSE IF data[offset + len + 1] = 0 THEN len
    ELSE strlen(data, offset, len + 1)

RECURSIVE Utf8Valid(_)
\* str::from_utf8 accepts the bytes; the strings of the model hold one-byte
\* and two-byte sequences only, any other byte is taken as invalid
Utf8Valid(b) ==
    IF b = <<>> THEN TRUE
    ELSE IF b[1] < 128 THEN Utf8Valid(Tail(b))
    ELSE IF b[1] >= 194 /\ b[1] <= 223 /\ Len(b) >= 2 /\ b[2] >= 128 /\ b[2] <= 191
    THEN Utf8Valid(SubSeq(b, 3, Len(b)))
    ELSE FALSE

\* ElfReader::get_str: the NUL-terminated string of the ELF bytes at vaddr
get_str(reader, vaddr) ==
    LET ptr == vaddr_conv(reader.elf, vaddr)
    IN  IF ptr.kind # "Ok" THEN ptr
        ELSE LET len == strlen(reader.elf.data, ptr.value, 0)
             IN  IF len < 0 THEN Panic
                 ELSE LET b == Bytes(reader.elf.data, ptr.value, len)
                      IN  IF Utf8Valid(b) THEN [kind |-> "Ok", value |-> b]
                          ELSE Err("Utf8", <<>>)

\* the index of a string heap taking the end of the heap for a terminator
StringData_index_to_end(data, index) ==
    IF ~Small(index) \/ Val(index) > Len(data) THEN Panic
    ELSE IF strlen(data, Val(index), 0) < 0
    THEN Ok(SubSeq(data, Val(index) + 1, Len(data)))
    ELSE Ok(Bytes(data, Val(index), strlen(data, Val(index), 0)))

\* string_data_table! Index<$idx_name>: the bytes of the heap from the index
\* to the first NUL; indexing the slice past its end panics, and so does the
\* unwrap of from_utf8 on bytes that are not UTF-8
StringData_index(data, index) ==
    IF ~Small(index) THEN Panic
    ELSE IF strlen(data, Val(index), 0) < 0 THEN Panic
    ELSE IF ~Utf8Valid(Bytes(data, Val(index), strlen(data, Val(index), 0)))
    THEN Panic
    ELSE Ok(Bytes(data, Val(index), strlen(data, Val(index), 0)))

\* the BinRead element types read from the ELF, by the widths of their fields
ElemLayout(T) ==
    CASE T = "u64" -> <<8>>
      [] T = "u32" -> <<4>>
      [] T = "Il2CppMethodSpec" -> <<4, 4, 4>>
      [] T = "Il2CppGenericMethodFunctionsDefinitions" -> <<4, 4, 4, 4>>
      [] T = "Il2CppTokenRangePair" -> <<4, 4, 4>>
      [] T = "Il2CppTypeDefinitionSizes" -> <<4, 4, 4, 4>>

RgctxVariants == 6

\* read_le of one element at pos: its value and the position after it.
\* Il2CppTokenAdjustorThunkPair aligns the position to 8 before its second
\* field; Il2CppRGCTXDefinition starts with an enum of repr u64.
ReadElem(data, pos, T) ==
    CASE T = "Il2CppTokenAdjustorThunkPair" ->
           LET p2 == ((pos + 4 + 7) \div 8) * 8
           IN  IF ~CanRead(data, pos, 4) \/ ~CanRead(data, p2, 8)
               THEN Err("BinaryDeserialize", <<>>)
               ELSE [kind |-> "Ok", next |-> p2 + 8,
                     value |-> <<Bytes(data, pos, 4), Bytes(data, p2, 8)>>]
      [] T = "Il2CppRGCTXDefinition" ->
           IF ~CanRead(data, pos, 16) THEN Err("BinaryDeserialize", <<>>)
           ELSE LET ty == Bytes(data, pos, 8)
                IN  IF ~Small(ty) \/ Val(ty) >= RgctxVariants
                    THEN Err("BinaryDeserialize", <<>>)
                    ELSE [kind |-> "Ok", next |-> pos + 16,
                          value |-> <<ty, Bytes(data, pos + 8, 8)>>]
      [] OTHER ->
           LET layout == ElemLayout(T)
           IN  IF ~CanRead(data, pos, SumSeq(layout))
               THEN Err("BinaryDeserialize", <<>>)
               ELSE [kind |-> "Ok", next |-> pos + SumSeq(layout),
                     value |-> IF Len(layout) = 1 THEN Bytes(data, pos, layout[1])
                               ELSE ReadFields(data, pos, layout)]

RECURSIVE ReadElems(_, _, _, _)
\* the loop of read_arr: len elements read one after the other
ReadElems(data, pos, T, len) ==
    IF len = 0 THEN [kind |-> "Ok", value |-> <<>>]
    ELSE LET e == ReadElem(data, pos, T)
         IN  IF e.kind # "Ok" THEN e
             ELSE LET rest == ReadElems(data, e.next, T, len - 1)
                  IN  IF rest.kind # "Ok" THEN rest
                      ELSE [kind |-> "Ok", value |-> <<e.value>> \o rest.value]

\* a count read from the file as a number of elements: a count of 2^24 or
\* more asks for more elements than any file of the model holds
CountOf(data, count) == IF Small(count) THEN Val(count) ELSE Len(data) + 1

\* read_arr: len elements of type T at vaddr of the relocated bytes
read_arr(reader, vaddr, len, T) ==
    LET cur == make_cur(reader, vaddr)
    IN  IF cur.kind # "Ok" THEN cur
        ELSE ReadElems(reader.elf_rel, cur.value, T, len)

\* read_len_arr with the cursor at pos: a count, padding and an address are
\* read, then the array at the address
read_len_arr(reader, pos, T) ==
    IF ~CanRead(reader.elf_rel, pos, 16) THEN Err("Io", <<>>)
    ELSE LET count == CountOf(reader.elf_rel, Bytes(reader.elf_rel, pos, 4))
             addr == Bytes(reader.elf_rel, pos + 8, 8)
         IN  read_arr(reader, addr, count, T)

\* read_len_arr_nullable: an array whose address lies in .bss is count
\* default elements
read_len_arr_nullable(reader, pos, T) ==
    IF ~CanRead(reader.elf_rel, pos, 16) THEN Err("Io", <<>>)
    ELSE LET count == CountOf(reader.elf_rel, Bytes(reader.elf_rel, pos, 4))
             addr == Bytes(reader.elf_rel, pos + 8, 8)
         IN  IF addr_in_bss(reader.elf, addr)
             THEN [kind |-> "Ok", value |-> [i \in 1..count |-> LE(0, 8)]]
             ELSE read_arr(reader, addr, count, T)

\* a cursor made at an address, with nothing read yet: the members read so
\* far and the cursor's position, or the error of make_cur
StartAt(cur) ==
    IF cur.kind # "Ok" THEN cur
    ELSE [kind |-> "Ok", value |-> <<>>, next |-> cur.value]

\* one more value read with `?`: a failure ends the reader
Push(acc, r) ==
    IF r.kind # "Ok" THEN r ELSE Ok(Append(acc.value, r.value))

\* one more member read from the cursor with `?`, the cursor moving on
PushStep(acc, size, r) ==
    IF r.kind # "Ok" THEN r
    ELSE [kind |-> "Ok", value |-> Append(acc.value, r.value),
          next |-> acc.next + size]

\* the structure built from the members read, names giving the position of
\* each of its fields among them
Fields(r, names) ==
    IF r.kind # "Ok" THEN r
    ELSE Ok([f \in DOMAIN names |-> r.value[names[f]]])

\* the members of a structure as its reader takes them from the cursor, in
\* order: a counted array, a nullable counted array, an address of an array
\* as long as an earlier member, a string pointer, bytes read and dropped, or
\* the counted array of module addresses with the module behind each
StepSize(step) ==
    CASE step.op = "read_len_arr" -> 16
      [] step.op = "read_len_arr_nullable" -> 16
      [] step.op = "read_arr" -> 8
      [] step.op = "get_str" -> 8
      [] step.op = "skip" -> step.bytes
      [] step.op = "modules" -> 16

\* Il2CppCodeGenModule::read: name, method_pointers, adjustor_thunks,
\* invoker_indices, reverse_pinvoke_wrapper_indices (dropped), rgctx_ranges,
\* rgctxs
CodeGenModuleSteps == <<
    [op |-> "get_str"],
    [op |-> "read_len_arr_nullable", elem |-> "u64"],
    [op |-> "read_len_arr", elem |-> "Il2CppTokenAdjustorThunkPair"],
    [op |-> "read_arr", elem |-> "u32", len_of |-> 2],
    [op |-> "skip", bytes |-> 16],
    [op |-> "read_len_arr", elem |-> "Il2CppTokenRangePair"],
    [op |-> "read_len_arr", elem |-> "Il2CppRGCTXDefinition"] >>

RECURSIVE ReadStruct(_, _, _)
\* Il2CppCodeGenModule::read: the module at vaddr
Il2CppCodeGenModule_read(reader, vaddr) ==
    Fields(ReadStruct(reader, CodeGenModuleSteps, StartAt(make_cur(reader, vaddr))),
           [name |-> 1, method_pointers |-> 2, adjustor_thunks |-> 3,
            invoker_indices |-> 4, rgctx_ranges |-> 6, rgctxs |-> 7])

RECURSIVE ReadModules(_, _, _)
\* the module loop of Il2CppCodeRegistration::read: the modules at the
\* addresses read, in order, stopping at the first failure
ReadModules(reader, module_addrs, acc) ==
    IF module_addrs.kind # "Ok" THEN module_addrs
    ELSE IF acc.kind # "Ok" \/ Len(acc.value) = Len(module_addrs.value) THEN acc
    ELSE ReadModules(reader, module_addrs,
                     Push(acc, Il2CppCodeGenModule_read(
                                   reader,
                                   module_addrs.value[Len(acc.value) + 1])))

\* one member read with the cursor at pos, acc holding the members before it
ReadStep(reader, pos, step, acc) ==
    CASE step.op = "read_len_arr" -> read_len_arr(reader, pos, step.elem)
      [] step.op = "read_len_arr_nullable" ->
           read_len_arr_nullable(reader, pos, step.elem)
      [] step.op = "read_arr" ->
           IF ~CanRead(reader.elf_rel, pos, 8) THEN Err("Io", <<>>)
           ELSE read_arr(reader, Bytes(reader.elf_rel, pos, 8),
                         Len(acc[step.len_of]), step.elem)
      [] step.op = "get_str" ->
           IF ~CanRead(reader.elf_rel, pos, 8) THEN Err("Io", <<>>)
           ELSE get_str(reader, Bytes(reader.elf_rel, pos, 8))
      [] step.op = "skip" ->
           IF ~CanRead(reader.elf_rel, pos, step.bytes) THEN Err("Io", <<>>)
           ELSE Ok(<<>>)
      [] step.op = "modules" ->
           ReadModules(reader, read_len_arr(reader, pos, "u64"), Ok(<<>>))

\* the members read in order, stopping at the first failure
ReadStruct(reader, steps, acc) ==
    IF acc.kind # "Ok" \/ Len(acc.value) = Len(steps) THEN acc
    ELSE ReadStruct(reader, steps,
                    PushStep(acc, StepSize(steps[Len(acc.value) + 1]),
                             ReadStep(reader, acc.next,
                                      steps[Len(acc.value) + 1], acc.value)))

\* Il2CppCodeRegistration::read: reverse_pinvoke_wrappers,
\* generic_method_pointers, generic_adjustor_thunks, invoker_pointers,
\* unresolved_virtual_call_pointers, two pointers (dropped), interop_data,
\* windows_runtime_factory_table, the modules
CodeRegistrationSteps == <<
    [op |-> "read_len_arr", elem |-> "u64"],
    [op |-> "read_len_arr", elem |-> "u64"],
    [op |-> "read_arr", elem |-> "u64", len_of |-> 2],
    [op |-> "read_len_arr", elem |-> "u64"],
    [op |-> "read_len_arr", elem |-> "u64"],
    [op |-> "skip", bytes |-> 8],
    [op |-> "skip", bytes |-> 8],
    [op |-> "read_len_arr", elem |-> "u64"],
    [op |-> "read_len_arr", elem |-> "u64"],
    [op |-> "modules"] >>

\* Il2CppCodeRegistration::read: the code registration at addr
Il2CppCodeRegistration_read(elf, elf_rel, addr) ==
    Fields(ReadStruct(ElfReader(elf, elf_rel), CodeRegistrationSteps,
                      StartAt(make_cur(ElfReader(elf, elf_rel), addr))),
           [reverse_pinvoke_wrappers |-> 1, generic_method_pointers |-> 2,
            generic_adjustor_thunks |-> 3, invoker_pointers |-> 4,
            unresolved_indirect_call_pointers |-> 5, code_gen_modules |-> 10])

-----------------------------------------------------------------------------
(* Runtime types, generic classes, generic insts and array types.          *)

\* Il2CppTypeEnum::from_ty: the kind of a kind byte, "" standing for None
from_ty(ty) ==
    CASE ty = 0 -> "End"
      [] ty = 1 -> "Void"
      [] ty = 2 -> "Boolean"
      [] ty = 3 -> "Char"
      [] ty = 4 -> "I1"
      [] ty = 5 -> "U1"
      [] ty = 6 -> "I2"
      [] ty = 7 -> "U2"
      [] ty = 8 -> "I4"
      [] ty = 9 -> "U4"
      [] ty = 10 -> "I8"
      [] ty = 11 -> "U8"
      [] ty = 12 -> "R4"
      [] ty = 13 -> "R8"
      [] ty = 14 -> "String"
      [] ty = 15 -> "Ptr"
      [] ty = 16 -> "Byref"
      [] ty = 17 -> "Valuetype"
      [] ty = 18 -> "Class"
      [] ty = 19 -> "Var"
      [] ty = 20 -> "Array"
      [] ty = 21 -> "Genericinst"
      [] ty = 22 -> "Typedbyref"
      [] ty = 24 -> "I"
      [] ty = 25 -> "U"
      [] ty = 27 -> "Fnptr"
      [] ty = 28 -> "Object"
      [] ty = 29 -> "Szarray"
      [] ty = 30 -> "Mvar"
      [] ty = 31 -> "CmodReqd"
      [] ty = 32 -> "CmodOpt"
      [] ty = 33 -> "Internal"
      [] ty = 64 -> "Modifier"
      [] ty = 65 -> "Sentinel"
      [] ty = 69 -> "Pinned"
      [] ty = 85 -> "Enum"
      [] OTHER -> ""

\* Il2CppType::full_name, its outer match on self.ty: the name written for
\* a kind, "" standing for the `_` arm (the kinds named through other rows)
Il2CppType_full_name(self) ==
    CASE self.ty = "Void" -> "System.Void"
      [] self.ty = "Boolean" -> "System.Boolean"
      [] self.ty = "Char" -> "System.Char"
      [] self.ty = "I1" -> "System.SByte"
      [] self.ty = "U1" -> "System.Byte"
      [] self.ty = "I2" -> "System.Int16"
      [] self.ty = "U2" -> "System.UInt16"
      [] self.ty = "I4" -> "System.Int32"
      [] self.ty = "U4" -> "System.UInt32"
      [] self.ty = "U8" -> "System.Int64"
      [] self.ty = "I8" -> "System.UInt64"
      [] self.ty = "R4" -> "System.Float"
      [] self.ty = "R8" -> "System.Double"
      [] self.ty = "String" -> "System.String"
      [] self.ty = "Typedbyref" -> "System.TypedReference"
      [] self.ty = "I" -> "System.IntPtr"
      [] self.ty = "U" -> "System.UIntPtr"
      [] self.ty = "Object" -> "System.Object"
      [] self.ty = "Sentinel" -> "<<SENTINEL>>"
      [] OTHER -> ""

\* the Il2CppArrayType built at the end of Il2CppArrayType::read, the two
\* arrays having been read with `?` in this order
ArrayTypeOf(elem_ty, rank, sizes, lower_bounds) ==
    IF sizes.kind # "Ok" THEN sizes
    ELSE IF lower_bounds.kind # "Ok" THEN lower_bounds
    ELSE Ok([elem_ty |-> elem_ty, rank |-> rank, sizes |-> sizes.value,
             lower_bounds |-> lower_bounds.value])

\* Il2CppArrayType::read with the cursor made at p: the element type (an
\* address types_map does not hold panics), rank, the two counts, padding,
\* and the two arrays, each behind its pointer
ArrayTypeAt(reader, d, p, types_map) ==
    IF ~CanRead(d, p, 8) THEN Err("Io", <<>>)
    ELSE IF Bytes(d, p, 8) \notin DOMAIN types_map THEN Panic
    ELSE IF ~CanRead(d, p + 8, 16) THEN Err("Io", <<>>)
    ELSE ArrayTypeOf(types_map[Bytes(d, p, 8)], d[p + 9],
                     read_arr(reader, Bytes(d, p + 16, 8), d[p + 10], "u32"),
                     IF ~CanRead(d, p + 24, 8) THEN Err("Io", <<>>)
                     ELSE read_arr(reader, Bytes(d, p + 24, 8), d[p + 11], "u32"))

\* Il2CppArrayType::read
Il2CppArrayType_read(reader, vaddr, types_map) ==
    IF make_cur(reader, vaddr).kind # "Ok" THEN make_cur(reader, vaddr)
    ELSE ArrayTypeAt(reader, reader.elf_rel, make_cur(reader, vaddr).value,
                     types_map)

\* the None arm putting the array type read in front of the table
NewArrayType_prepend(array_types, array_type_map, raw_data, arr) ==
    IF arr.kind # "Ok" THEN arr
    ELSE [kind |-> "Ok",
          tables |-> [array_types |-> <<arr.value>> \o array_types,
                      array_type_map |->
                        MapPut(array_type_map, raw_data, Len(array_types))],
          data |-> [tag |-> "ArrayType", idx |-> Len(array_types)]]

\* the None arm of the Array match: the array type read is pushed and its
\* address is entered in the map
NewArrayType(array_types, array_type_map, raw_data, arr) ==
    IF arr.kind # "Ok" THEN arr
    ELSE [kind |-> "Ok",
          tables |-> [array_types |-> Append(array_types, arr.value),
                      array_type_map |->
                        MapPut(array_type_map, raw_data, Len(array_types))],
          data |-> [tag |-> "ArrayType", idx |-> Len(array_types)]]

\* the match without Szarray in its pointer arm, which then takes the default
\* arm
TypeDataOf_szarray_default(reader, ty, raw_data, type_map, generic_class_map, array_types, array_type_map) ==
    LET same == [array_types |-> array_types, array_type_map |-> array_type_map]
    IN  CASE ty \in {"Var", "Mvar"} ->
               [kind |-> "Ok", tables |-> same,
                data |-> [tag |-> "GenericParameterIndex",
                          idx |-> SubSeq(raw_data, 1, 4)]]
          [] ty \in {"Ptr"} ->
               IF raw_data \notin DOMAIN type_map THEN Panic
               ELSE [kind |-> "Ok", tables |-> same,
                     data |-> [tag |-> "TypeIndex", idx |-> type_map[raw_data]]]
          [] ty = "Array" ->
               IF raw_data \in DOMAIN array_type_map
               THEN [kind |-> "Ok", tables |-> same,
                     data |-> [tag |-> "ArrayType",
                               idx |-> array_type_map[raw_data]]]
               ELSE NewArrayType(array_types, array_type_map, raw_data,
                                 Il2CppArrayType_read(reader, raw_data, type_map))
          [] ty = "Genericinst" ->
               IF raw_data \notin DOMAIN generic_class_map THEN Panic
               ELSE [kind |-> "Ok", tables |-> same,
                     data |-> [tag |-> "GenericClassIndex",
                               idx |-> generic_class_map[raw_data]]]
          [] OTHER ->
               [kind |-> "Ok", tables |-> same,
                data |-> [tag |-> "TypeDefinitionIndex",
                          idx |-> SubSeq(raw_data, 1, 4)]]

\* the data of a type by its kind (the match of Il2CppType::read); indexing
\* type_map or generic_class_map with an address they do not hold panics
TypeDataOf(reader, ty, raw_data, type_map, generic_class_map, array_types, array_type_map) ==
    LET same == [array_types |-> array_types, array_type_map |-> array_type_map]
    IN  CASE ty \in {"Var", "Mvar"} ->
               [kind |-> "Ok", tables |-> same,
                data |-> [tag |-> "GenericParameterIndex",
                          idx |-> SubSeq(raw_data, 1, 4)]]
          [] ty \in {"Ptr", "Szarray"} ->
               IF raw_data \notin DOMAIN type_map THEN Panic
               ELSE [kind |-> "Ok", tables |-> same,
                     data |-> [tag |-> "TypeIndex", idx |-> type_map[raw_data]]]
          [] ty = "Array" ->
               IF raw_data \in DOMAIN array_type_map
               THEN [kind |-> "Ok", tables |-> same,
                     data |-> [tag |-> "ArrayType",
                               idx |-> array_type_map[raw_data]]]
               ELSE NewArrayType(array_types, array_type_map, raw_data,
                                 Il2CppArrayType_read(reader, raw_data, type_map))
          [] ty = "Genericinst" ->
               IF raw_data \notin DOMAIN generic_class_map THEN Panic
               ELSE [kind |-> "Ok", tables |-> same,
                     data |-> [tag |-> "GenericClassIndex",
                               idx |-> generic_class_map[raw_data]]]
          [] OTHER ->
               [kind |-> "Ok", tables |-> same,
                data |-> [tag |-> "TypeDefinitionIndex",
                          idx |-> SubSeq(raw_data, 1, 4)]]

\* the three flags of Il2CppType::read from the bitfield byte
TypeFlags(bitfield) ==
    [byref |-> (bitfield \div 32) # 0,
     pinned |-> (bitfield \div 64) # 0,
     valuetype |-> (bitfield \div 128) # 0]

\* the Il2CppType built at the end of Il2CppType::read
TypeOf(data, attrs, ty, flags) ==
    IF data.kind # "Ok" THEN data
    ELSE [kind |-> "Ok", tables |-> data.tables,
          value |-> [data |-> data.data, attrs |-> attrs, ty |-> ty,
                     byref |-> flags.byref, pinned |-> flags.pinned,
                     valuetype |-> flags.valuetype]]

\* Il2CppType::read taking a kind byte that is not listed for End
TypeAt_lenient(reader, d, p, type_map, generic_class_map, array_types, array_type_map) ==
    IF ~CanRead(d, p, 12) THEN Err("Io", <<>>)
    ELSE TypeOf(TypeDataOf(reader,
                           IF from_ty(d[p + 11]) = "" THEN "End"
                           ELSE from_ty(d[p + 11]),
                           Bytes(d, p, 8), type_map, generic_class_map,
                           array_types, array_type_map),
                Bytes(d, p + 8, 2),
                IF from_ty(d[p + 11]) = "" THEN "End" ELSE from_ty(d[p + 11]),
                TypeFlags(d[p + 12]))

\* Il2CppType::read with the cursor made at p: the 12-byte record (data,
\* attrs, kind byte, bitfield)
TypeAt(reader, d, p, type_map, generic_class_map, array_types, array_type_map) ==
    IF ~CanRead(d, p, 11) THEN Err("Io", <<>>)
    ELSE IF from_ty(d[p + 11]) = "" THEN Err("InvalidType", d[p + 11])
    ELSE IF ~CanRead(d, p + 11, 1) THEN Err("Io", <<>>)
    ELSE TypeOf(TypeDataOf(reader, from_ty(d[p + 11]), Bytes(d, p, 8), type_map,
                           generic_class_map, array_types, array_type_map),
                Bytes(d, p + 8, 2), from_ty(d[p + 11]), TypeFlags(d[p + 12]))

\* Il2CppType::read: the type at vaddr, with the array-type table it may
\* have grown
Il2CppType_read(reader, vaddr, type_map, generic_class_map, array_types, array_type_map) ==
    IF make_cur(reader, vaddr).kind # "Ok" THEN make_cur(reader, vaddr)
    ELSE TypeAt(reader, reader.elf_rel, make_cur(reader, vaddr).value, type_map,
                generic_class_map, array_types, array_type_map)

\* HashMap::get(..).copied() of Il2CppGenericContext::read
MapGet(map, k) ==
    IF k \in DOMAIN map THEN [some |-> TRUE, idx |-> map[k]] ELSE [some |-> FALSE]

\* Il2CppGenericClass::read with Il2CppGenericContext::read, the cursor made
\* at p
GenericClassAt(d, p, generic_inst_map, type_map) ==
    IF ~CanRead(d, p, 8) THEN Err("Io", <<>>)
    ELSE IF Bytes(d, p, 8) \notin DOMAIN type_map THEN Panic
    ELSE IF ~CanRead(d, p + 8, 16) THEN Err("Io", <<>>)
    ELSE Ok([type_index |-> type_map[Bytes(d, p, 8)],
             context |->
               [class_inst_idx |-> MapGet(generic_inst_map, Bytes(d, p + 8, 8)),
                method_inst_idx |-> MapGet(generic_inst_map, Bytes(d, p + 16, 8))]])

\* Il2CppGenericClass::read
Il2CppGenericClass_read(reader, vaddr, generic_inst_map, type_map) ==
    IF make_cur(reader, vaddr).kind # "Ok" THEN make_cur(reader, vaddr)
    ELSE GenericClassAt(reader.elf_rel, make_cur(reader, vaddr).value,
                        generic_inst_map, type_map)

\* the loop of Il2CppGenericInst::read over the addresses read: an address
\* types_map does not hold panics
GenericInstOf(type_ptrs, types_map) ==
    IF type_ptrs.kind # "Ok" THEN type_ptrs
    ELSE IF \E i \in 1..Len(type_ptrs.value) :
               type_ptrs.value[i] \notin DOMAIN types_map
    THEN Panic
    ELSE Ok([types |-> [i \in 1..Len(type_ptrs.value) |->
                          types_map[type_ptrs.value[i]]]])

\* Il2CppGenericInst::read
Il2CppGenericInst_read(reader, vaddr, types_map) ==
    IF make_cur(reader, vaddr).kind # "Ok" THEN make_cur(reader, vaddr)
    ELSE GenericInstOf(read_len_arr(reader, make_cur(reader, vaddr).value, "u64"),
                       types_map)

-----------------------------------------------------------------------------
(* Il2CppMetadataRegistration::read, one loop round at a time.             *)

\* the counted arrays at the head of the structure: generic class addresses,
\* generic inst addresses, generic_method_table, type addresses,
\* method_specs, field offset pointers, type definition size pointers
MetadataRegistrationSteps == <<
    [op |-> "read_len_arr", elem |-> "u64"],
    [op |-> "read_len_arr", elem |-> "u64"],
    [op |-> "read_len_arr", elem |-> "Il2CppGenericMethodFunctionsDefinitions"],
    [op |-> "read_len_arr", elem |-> "u64"],
    [op |-> "read_len_arr", elem |-> "Il2CppMethodSpec"],
    [op |-> "read_len_arr", elem |-> "u64"],
    [op |-> "read_len_arr", elem |-> "u64"] >>

\* the map keeping the first position of an address listed twice
AddrMap_first(addrs) ==
    [a \in {addrs[i] : i \in 1..Len(addrs)} |->
       (CHOOSE i \in 1..Len(addrs) :
          /\ addrs[i] = a
          /\ \A j \in 1..Len(addrs) : addrs[j] = a => i <= j) - 1]

\* the map with positions counted from one
AddrMap_from_one(addrs) ==
    [a \in {addrs[i] : i \in 1..Len(addrs)} |->
       CHOOSE i \in 1..Len(addrs) :
          /\ addrs[i] = a
          /\ \A j \in 1..Len(addrs) : addrs[j] = a => j <= i]

\* the map built by inserting (addr, i) for the addresses in order: a later
\* position replaces an earlier one of the same address
AddrMap(addrs) ==
    [a \in {addrs[i] : i \in 1..Len(addrs)} |->
       (CHOOSE i \in 1..Len(addrs) :
          /\ addrs[i] = a
          /\ \A j \in 1..Len(addrs) : addrs[j] = a => j <= i) - 1]

\* the reader's locals when the address arrays have been read and the two
\* maps built from them
LoopState(r) ==
    IF r.kind # "Ok" THEN r
    ELSE Ok([generic_class_addrs |-> r.value[1],
             generic_inst_addrs |-> r.value[2],
             generic_method_table |-> r.value[3],
             type_addrs |-> r.value[4],
             method_specs |-> r.value[5],
             field_offset_ptrs |-> r.value[6],
             type_definition_sizes_ptrs |-> r.value[7],
             generic_inst_map |-> AddrMap(r.value[2]),
             type_map |-> AddrMap(r.value[4]),
             generic_classes |-> <<>>,
             generic_class_map |-> EmptyMap,
             types |-> <<>>,
             array_types |-> <<>>,
             array_type_map |-> EmptyMap,
             generic_insts |-> <<>>,
             type_definition_sizes |-> <<>>,
             field_offsets |-> <<>>])

\* lines 483-513: the address arrays are read and the two maps are built
MetadataRegistrationBegin(elf, elf_rel, addr) ==
    LoopState(ReadStruct(ElfReader(elf, elf_rel), MetadataRegistrationSteps,
                         StartAt(make_cur(ElfReader(elf, elf_rel), addr))))

\* the loop the reader is in, by what it has pushed so far
CurrentLoop(m) ==
    IF Len(m.generic_classes) < Len(m.generic_class_addrs) THEN "generic_classes"
    ELSE IF Len(m.types) < Len(m.type_addrs) THEN "types"
    ELSE IF Len(m.generic_insts) < Len(m.generic_inst_addrs) THEN "generic_insts"
    ELSE IF Len(m.type_definition_sizes) < Len(m.type_definition_sizes_ptrs)
    THEN "type_definition_sizes"
    ELSE IF Len(m.field_offsets) < Len(m.field_offset_ptrs) THEN "field_offsets"
    ELSE "return"

\* lines 507-508: the class read is pushed and its address entered in the map
GenericClassPush(m, r) ==
    IF r.kind # "Ok" THEN r
    ELSE Ok([m EXCEPT
               !.generic_classes = Append(@, r.value),
               !.generic_class_map =
                   MapPut(@, m.generic_class_addrs[Len(m.generic_classes) + 1],
                          Len(m.generic_classes))])

\* one round of the loop of lines 506-509
GenericClassRound(reader, m) ==
    GenericClassPush(m, Il2CppGenericClass_read(
                            reader, m.generic_class_addrs[Len(m.generic_classes) + 1],
                            m.generic_inst_map, m.type_map))

\* line 515: the type read is pushed
TypePush(m, r) ==
    IF r.kind # "Ok" THEN r
    ELSE Ok([m EXCEPT
               !.types = Append(@, r.value),
               !.array_types = r.tables.array_types,
               !.array_type_map = r.tables.array_type_map])

\* one round of the loop of lines 514-516
TypeRound(reader, m) ==
    TypePush(m, Il2CppType_read(reader, m.type_addrs[Len(m.types) + 1],
                                m.type_map, m.generic_class_map, m.array_types,
                                m.array_type_map))

\* line 520: the generic inst read is pushed
GenericInstPush(m, r) ==
    IF r.kind # "Ok" THEN r
    ELSE Ok([m EXCEPT !.generic_insts = Append(@, r.value)])

\* one round of the loop of lines 519-521
GenericInstRound(reader, m) ==
    GenericInstPush(m, Il2CppGenericInst_read(
                           reader, m.generic_inst_addrs[Len(m.generic_insts) + 1],
                           m.type_map))

\* line 526: the sizes read with read_le are pushed
SizesPush(m, cur, r) ==
    IF cur.kind # "Ok" THEN cur
    ELSE IF r.kind # "Ok" THEN r
    ELSE Ok([m EXCEPT !.type_definition_sizes = Append(@, r.value)])

\* the position of a cursor made, 0 for none
PosOf(cur) == IF cur.kind = "Ok" THEN cur.value ELSE 0

\* one round of the loop of lines 524-527
SizesRound(reader, m) ==
    SizesPush(m,
              make_cur(reader, m.type_definition_sizes_ptrs[
                                   Len(m.type_definition_sizes) + 1]),
              ReadElem(reader.elf_rel,
                       PosOf(make_cur(reader, m.type_definition_sizes_ptrs[
                                                  Len(m.type_definition_sizes) + 1])),
                       "Il2CppTypeDefinitionSizes"))

\* the layout position of field_count in a type definition row
FieldCountField == 19

\* the table of the global metadata named name
GlobalTable(g, name) ==
    g[CHOOSE i \in 1..NumTables : TableDefs[i].name = name]

RECURSIVE ReadU32s(_, _, _)
\* the loop of lines 540-542: arr_len u32 read with the cursor
ReadU32s(data, pos, n) ==
    IF n = 0 THEN [kind |-> "Ok", value |-> <<>>]
    ELSE IF ~CanRead(data, pos, 4) THEN Err("Io", <<>>)
    ELSE LET rest == ReadU32s(data, pos + 4, n - 1)
         IN  IF rest.kind # "Ok" THEN rest
             ELSE [kind |-> "Ok", value |-> <<Bytes(data, pos, 4)>> \o rest.value]

\* line 543: the offsets read are pushed
FieldOffsetsPush(m, arr) ==
    IF arr.kind # "Ok" THEN arr
    ELSE Ok([m EXCEPT !.field_offsets = Append(@, arr.value)])

\* lines 535-542 with the u32 read from the bytes of the file as they were
\* before the relocations
FieldOffsetsAt_unrelocated(reader, cur, i, type_defs) ==
    IF cur.kind # "Ok" THEN cur
    ELSE IF i >= Len(type_defs) THEN Panic
    ELSE ReadU32s(reader.elf.data, cur.value,
                  Val(type_defs[i + 1][FieldCountField]))

\* lines 535-542 for a pointer that is not null: a cursor is made, the field
\* count of the type definition at the pointer's position is taken (indexing
\* type_definitions with a position it does not have panics) and as many u32
\* are read
FieldOffsetsAt(reader, cur, i, type_defs) ==
    IF cur.kind # "Ok" THEN cur
    ELSE IF i >= Len(type_defs) THEN Panic
    ELSE ReadU32s(reader.elf_rel, cur.value,
                  Val(type_defs[i + 1][FieldCountField]))

\* one round of the loop of lines 530-544
FieldOffsetsRound(reader, m, g) ==
    FieldOffsetsPush(
        m,
        IF m.field_offset_ptrs[Len(m.field_offsets) + 1] = LE(0, 8)
        THEN Ok(<<>>)
        ELSE FieldOffsetsAt(
                 reader,
                 make_cur(reader, m.field_offset_ptrs[Len(m.field_offsets) + 1]),
                 Len(m.field_offsets),
                 GlobalTable(g, "type_definitions").table))

\* the Il2CppMetadataRegistration returned at line 546
MetadataRegistrationOf(m) ==
    [generic_classes |-> m.generic_classes,
     generic_insts |-> m.generic_insts,
     generic_method_table |-> m.generic_method_table,
     types |-> m.types,
     array_types |-> m.array_types,
     method_specs |-> m.method_specs,
     field_offsets |-> m.field_offsets,
     type_definition_sizes |-> m.type_definition_sizes]

-----------------------------------------------------------------------------
(* Il2CppType::full_name and Il2CppTypeDefinition::full_name, the whole     *)
(* recursion. A name is the sequence of its pieces: the texts the code      *)
(* writes and the strings it takes from the string heap. The functions      *)
(* keep no state, so a chain of nested calls that comes to a callee it      *)
(* already holds never returns and the stack overflows: the chain is cut    *)
(* when it is longer than the number of types and type definitions.         *)

Text(s) == [text |-> s, bytes |-> <<>>]

HeapText(b) == [text |-> "", bytes |-> b]

StackOverflow == [kind |-> "StackOverflow"]

\* the name r with the pieces after it
Followed(r, pieces) == IF r.kind # "Ok" THEN r ELSE Ok(r.value \o pieces)

\* the name a followed by the name b, a having been computed first
Joined(a, b) ==
    IF a.kind # "Ok" THEN a ELSE IF b.kind # "Ok" THEN b ELSE Ok(a.value \o b.value)

\* metadata.global_metadata.string[index] as a piece of a name
HeapName(md, index) ==
    IF StringData_index(GlobalTable(md.global_metadata, "string").data, index).kind # "Ok"
    THEN Panic
    ELSE Ok(<<HeapText(StringData_index(GlobalTable(md.global_metadata, "string").data,
                                        index).value)>>)

\* the commas of the loop `for _ in 0..arr_type.rank - 1`: the subtraction is
\* of u8, so for rank 0 a build with overflow checks panics and one without
\* wraps around to 255
Commas(rank, overflowChecks) ==
    IF rank = 0
    THEN IF overflowChecks THEN Panic ELSE Ok([i \in 1..255 |-> Text(",")])
    ELSE Ok([i \in 1..(rank - 1) |-> Text(",")])

\* the arm of Il2CppTypeEnum::Array after the name of the element type
ArrayName(elem, rank, overflowChecks) ==
    Followed(Joined(Followed(elem, <<Text("[")>>), Commas(rank, overflowChecks)),
             <<Text("]")>>)

\* the arm of Il2CppTypeEnum::Genericinst: the arguments are named first,
\* then the generic type, and the name is "{}<{}>" of the two
GenericName(args, base) ==
    IF args.kind # "Ok" THEN args
    ELSE IF base.kind # "Ok" THEN base
    ELSE Ok(base.value \o <<Text("<")>> \o args.value \o <<Text(">")>>)

\* the prefix of Il2CppTypeDefinition::full_name: the namespace and a dot,
\* unless the namespace is empty
NamespacePrefix(namespace) ==
    IF namespace.kind # "Ok" THEN namespace
    ELSE IF namespace.value[1].bytes = <<>> THEN Ok(<<>>)
    ELSE Followed(namespace, <<Text(".")>>)

RECURSIVE Il2CppType_full_name_in(_, _, _, _)
RECURSIVE Il2CppTypeDefinition_full_name(_, _, _, _)
RECURSIVE ArgumentNames(_, _, _, _, _)

\* the names of the types tys from the i-th on, joined with ", "
ArgumentNames(md, tys, i, depth, overflowChecks) ==
    IF i > Len(tys) THEN Ok(<<>>)
    ELSE Joined(
             IF i = 1
             THEN Il2CppType_full_name_in(
                      md, md.runtime_metadata.metadata_registration.types[tys[i] + 1],
                      depth, overflowChecks)
             ELSE Joined(Ok(<<Text(", ")>>),
                         Il2CppType_full_name_in(
                             md,
                             md.runtime_metadata.metadata_registration.types[tys[i] + 1],
                             depth, overflowChecks)),
             ArgumentNames(md, tys, i + 1, depth, overflowChecks))

\* Il2CppTypeDefinition::full_name(metadata, false) of a row: the namespace
\* and the name are taken from the string heap, then the name of the
\* declaring type is put between them unless its index is u32::MAX
Il2CppTypeDefinition_full_name(md, row, depth, overflowChecks) ==
    IF depth = 0 THEN StackOverflow
    ELSE IF HeapName(md, row[2]).kind # "Ok" \/ HeapName(md, row[1]).kind # "Ok"
    THEN Panic
    ELSE IF row[4] = AllOnes(4)
    THEN Joined(NamespacePrefix(HeapName(md, row[2])), HeapName(md, row[1]))
    ELSE IF ~Small(row[4])
            \/ Val(row[4]) >= Len(md.runtime_metadata.metadata_registration.types)
    THEN Panic
    ELSE Joined(
             Joined(NamespacePrefix(HeapName(md, row[2])),
                    Followed(Il2CppType_full_name_in(
                                 md,
                                 md.runtime_metadata.metadata_registration.types[
                                     Val(row[4]) + 1],
                                 depth - 1, overflowChecks),
                             <<Text("::")>>)),
             HeapName(md, row[1]))

\* Il2CppType::full_name(metadata) of self: the outer match, and for the
\* kinds it does not name the match on (self.ty, self.data)
Il2CppType_full_name_in(md, self, depth, overflowChecks) ==
    IF depth = 0 THEN StackOverflow
    ELSE IF Il2CppType_full_name(self) # "" THEN Ok(<<Text(Il2CppType_full_name(self))>>)
    ELSE CASE self.ty \in {"Var", "Mvar"} ->
                IF ~Small(self.data.idx)
                   \/ Val(self.data.idx)
                        >= Len(GlobalTable(md.global_metadata, "generic_parameters").table)
                THEN Panic
                ELSE HeapName(md, GlobalTable(md.global_metadata,
                                              "generic_parameters").table[
                                      Val(self.data.idx) + 1][2])
           [] self.ty = "Ptr" ->
                Followed(Il2CppType_full_name_in(
                             md,
                             md.runtime_metadata.metadata_registration.types[
                                 self.data.idx + 1],
                             depth - 1, overflowChecks),
                         <<Text("*")>>)
           [] self.ty = "Szarray" ->
                Followed(Il2CppType_full_name_in(
                             md,
                             md.runtime_metadata.metadata_registration.types[
                                 self.data.idx + 1],
                             depth - 1, overflowChecks),
                         <<Text("[]")>>)
           [] self.ty = "Array" ->
                ArrayName(
                    Il2CppType_full_name_in(
                        md,
                        md.runtime_metadata.metadata_registration.types[
                            md.runtime_metadata.metadata_registration.array_types[
                                self.data.idx + 1].elem_ty + 1],
                        depth - 1, overflowChecks),
                    md.runtime_metadata.metadata_registration.array_types[
                        self.data.idx + 1].rank,
                    overflowChecks)
           [] self.ty \in {"Class", "Valuetype"} ->
                IF ~Small(self.data.idx)
                   \/ Val(self.data.idx)
                        >= Len(GlobalTable(md.global_metadata, "type_definitions").table)
                THEN Panic
                ELSE Il2CppTypeDefinition_full_name(
                         md,
                         GlobalTable(md.global_metadata, "type_definitions").table[
                             Val(self.data.idx) + 1],
                         depth - 1, overflowChecks)
           [] self.ty = "Genericinst" ->
                IF ~md.runtime_metadata.metadata_registration.generic_classes[
                        self.data.idx + 1].context.class_inst_idx.some
                THEN Panic
                ELSE GenericName(
                         ArgumentNames(
                             md,
                             md.runtime_metadata.metadata_registration.generic_insts[
                                 md.runtime_metadata.metadata_registration
                                   .generic_classes[self.data.idx + 1]
                                   .context.class_inst_idx.idx + 1].types,
                             1, depth - 1, overflowChecks),
                         Il2CppType_full_name_in(
                             md,
                             md.runtime_metadata.metadata_registration.types[
                                 md.runtime_metadata.metadata_registration
                                   .generic_classes[self.data.idx + 1].type_index + 1],
                             depth - 1, overflowChecks))
           [] OTHER -> Ok(<<Text("("), Text(self.ty), Text("?)")>>)

\* the longest chain of nested calls that holds no callee twice
CallChain(md) ==
    Len(md.runtime_metadata.metadata_registration.types)
    + Len(GlobalTable(md.global_metadata, "type_definitions").table)

-----------------------------------------------------------------------------
(* Global metadata files of the model.                                     *)

Zero(n) == [i \in 1..n |-> 0]

RECURSIVE Flat(_)
Flat(ss) == IF ss = <<>> THEN <<>> ELSE ss[1] \o Flat(Tail(ss))

\* the first n bytes of data (all of it when it is shorter)
Prefix(data, n) == SubSeq(data, 1, IF n < Len(data) THEN n ELSE Len(data))

\* a header: the sanity word, the version word and the OffsetLen of each table
HeaderBytes(sanity, version, ols) ==
    sanity \o version
    \o Flat([i \in 1..NumTables |-> ols[i].offset \o ols[i].len])

OL(offset, len) == [offset |-> offset, len |-> len]

\* one type definition row with field_count = 2; its other fields are zero
TypeDefinitionRow == Zero(64) \o <<0, 0, 0, 0, 2, 0>> \o Zero(18)

\* the bytes of the string heap: "a", "bc", a byte that is not UTF-8, the
\* empty string, a two-byte sequence and "d"
StringBytes == <<97, 0, 98, 99, 0, 255, 0, 195, 169, 0, 100, 0>>

\* what follows the header in every file of the model: one type definition
\* row at HeaderSize and the strings after it
FileBody == TypeDefinitionRow \o StringBytes

StringsAt == HeaderSize + Len(TypeDefinitionRow)

\* every length 0, every offset the same word
AllEmpty(offset) == [i \in 1..NumTables |-> OL(offset, LE(0, 4))]

\* the type definition table and the string heap present, the others empty
\* with an offset past the end of the file
GoodTables ==
    [i \in 1..NumTables |->
       CASE TableDefs[i].name = "type_definitions" ->
              OL(LE(HeaderSize, 4), LE(Len(TypeDefinitionRow), 4))
         [] TableDefs[i].name = "string" ->
              OL(LE(StringsAt, 4), LE(Len(StringBytes), 4))
         [] OTHER -> OL(AllOnes(4), LE(0, 4))]

\* table i alone present, at HeaderSize, as long as one row (four bytes for
\* a string heap); the others are empty with an offset past the end
OneTable(i) ==
    [j \in 1..NumTables |->
       IF j = i
       THEN OL(LE(HeaderSize, 4),
               LE(IF TableDefs[i].kind = "basic" THEN RowSize(i) ELSE 4, 4))
       ELSE OL(AllOnes(4), LE(0, 4))]

\* table i alone with a length that is not zero, at the offset given
LoneTable(i, offset, len) ==
    [j \in 1..NumTables |->
       IF j = i THEN OL(offset, len) ELSE OL(LE(0, 4), LE(0, 4))]

\* the recorded lengths of the methods table
MethodLens == {1, 32, 35, 36, 64, 72, 75, 100, 101}

\* the methods table alone, over the type definition row and the strings
MethodTables ==
    {LoneTable(6, LE(HeaderSize, 4), LE(n, 4)) : n \in MethodLens}
    \cup {LoneTable(6, LE(HeaderSize + 60, 4), LE(36, 4)),
          LoneTable(6, LE(HeaderSize + 28, 4), LE(72, 4))}

\* the good tables with another window for the string heap: its first six
\* and its first four bytes (neither ends with a NUL), the bytes from the
\* one that is not UTF-8 on, and a window that ends past the file
StringHeaps ==
    {[GoodTables EXCEPT ![3] = OL(LE(StringsAt + w[1], 4), LE(w[2], 4))] :
        w \in {<<0, 6>>, <<0, 4>>, <<5, 2>>, <<0, 13>>, <<2, 10>>}}

TableConfigs ==
    {AllEmpty(LE(0, 4)), AllEmpty(AllOnes(4)), AllEmpty(LE(HeaderSize + 1000, 4)),
     GoodTables, LoneTable(20, LE(HeaderSize + 2, 4), LE(88, 4))}
    \cup MethodTables \cup StringHeaps
    \cup {OneTable(i) : i \in 1..NumTables}
    \cup {LoneTable(3, LE(StringsAt, 4), LE(16, 4)),
          LoneTable(3, AllOnes(4), LE(1, 4)),
          LoneTable(20, LE(StringsAt, 4), LE(88, 4)),
          LoneTable(20, AllOnes(4), LE(88, 4)),
          LoneTable(20, AllOnes(4), LE(87, 4)),
          LoneTable(1, AllOnes(4), AllOnes(4))}

SanityWords == {SANITY, <<239, 190, 173, 222>>, <<0, 0, 0, 0>>, <<175, 27, 177, 0>>,
                <<250, 177, 27, 175>>, LE(VERSION, 4)}

VersionWords == {LE(VERSION, 4), LE(VERSION - 1, 4), LE(VERSION + 1, 4), LE(0, 4),
                 <<31, 0, 0, 1>>, AllOnes(4), SANITY}

File(sanity, version, ols) == HeaderBytes(sanity, version, ols) \o FileBody

GoodGlobal == File(SANITY, LE(VERSION, 4), GoodTables)

\* a file whose only table holds two type definitions, the first with
\* field_count = 2 and the second with field_count = 3
TwoTypeDefinitions ==
    HeaderBytes(SANITY, LE(VERSION, 4),
                LoneTable(20, LE(HeaderSize, 4), LE(2 * Len(TypeDefinitionRow), 4)))
    \o TypeDefinitionRow \o Zero(68) \o <<3, 0>> \o Zero(18)

\* a file like GoodGlobal whose type definition is a top-level one: its name
\* is "a", its namespace "bc" and its declaring_type_index u32::MAX
TopLevelTypes ==
    HeaderBytes(SANITY, LE(VERSION, 4), GoodTables)
    \o WriteAt(TypeDefinitionRow, 0, LE(0, 4) \o LE(2, 4) \o Zero(4) \o AllOnes(4))
    \o StringBytes

\* the longest of the short prefixes taken of every file
MaxShortLen == 9

ShortLens == (0..MaxShortLen) \cup {HeaderSize - 1, HeaderSize}

GlobalInputs ==
    {File(SANITY, LE(VERSION, 4), c) : c \in TableConfigs}
    \cup {File(s, v, GoodTables) : s \in SanityWords, v \in VersionWords}
    \cup {Prefix(File(s, v, GoodTables), n) :
            s \in SanityWords, v \in VersionWords, n \in ShortLens}

-----------------------------------------------------------------------------
(* ELF images of the model. One segment maps the whole file at V(0);       *)
(* .bss lies after it. The pieces of the image are named by their file     *)
(* offsets.                                                                *)

\* the virtual address of a file offset, as a number and as a pointer
V(off) == 4096 + off

\* where .bss lies, past the segment
BssBase == V(4096)

P(off) == LE(V(off), 8)

\* an instruction in the encoding Decode reads
Ins(op, regs, imm) == <<op, regs, imm % 256, imm \div 256>>

\* a counted array: a u32 count, padding, the address of the elements
Arr(count, off) == LE(count, 4) \o LE(0, 4) \o P(off)

\* a 16-byte type record: data, attrs, kind byte, bitfield, padding
TypeRec(data, kind, bitfield) == data \o LE(0, 2) \o <<kind, bitfield>> \o Zero(4)

\* an array-type record: the element type, rank, two counts of zero, padding
\* and the two array pointers
ArrayRec(elem, rank) == elem \o <<rank, 0, 0>> \o Zero(5) \o P(64) \o P(64)

\* offsets 0..63: il2cpp_init at 0 (its second BL goes to 16), the runtime
\* init at 16 (it loads the pointer cell at 72 and calls it), the setter at 32
CodeBytes ==
    Flat(<<Ins(0, 0, 0), Ins(4, 0, V(0)), Ins(4, 0, V(16)), Ins(0, 0, 0),
           Ins(1, 128, V(64)), Ins(2, 136, 8), Ins(3, 136, 0), Ins(5, 128, 0),
           Ins(1, 0, V(80)), Ins(2, 0, 0), Ins(1, 16, V(216)), Ins(2, 17, 0),
           Ins(0, 0, 0), Ins(0, 0, 0), Ins(0, 0, 0), Ins(0, 0, 0)>>)

\* offsets 80..215: g_CodeRegistration
CodeRegistrationBytes ==
    Flat(<<Arr(0, 64), Arr(1, 328), P(336), Arr(0, 64), Arr(0, 64), Zero(16),
           Arr(0, 64), Arr(0, 64), Arr(1, 344)>>)

\* offsets 216..327: g_MetadataRegistration
MetadataRegistrationBytes ==
    Flat(<<Arr(1, 464), Arr(1, 472), Arr(0, 64), Arr(6, 480), Arr(0, 64),
           Arr(2, 528), Arr(1, 552)>>)

\* offsets 328..351: a generic method pointer, an adjustor thunk, the
\* address of the module
PointerBytes == Flat(<<P(0), LE(0, 8), P(352)>>)

\* offsets 352..463: the module with two method pointers at the address
\* given, its name "a.dll" and its two invoker indices
ModuleBytes(method_pointers) ==
    Flat(<<P(448), LE(2, 4), LE(0, 4), method_pointers, Arr(0, 64), P(456),
           Zero(16), Arr(0, 64), Arr(0, 64),
           <<97, 46, 100, 108, 108, 0, 0, 0>>, LE(1, 4), LE(2, 4)>>)

\* offsets 464..575: the address arrays of the metadata registration (one
\* generic class, one generic inst, six types, two field offset pointers),
\* the cells of the field offsets of type definition 0, which a relocation
\* fills, and one Il2CppTypeDefinitionSizes behind its pointer
AddressBytes(type_addrs, field_offset_ptrs) ==
    Flat(<<P(672), P(728)>>) \o Flat(type_addrs) \o Flat(field_offset_ptrs)
    \o Flat(<<Zero(8), P(560), LE(24, 4), LE(8, 4), LE(0, 4), LE(0, 4)>>)

\* offsets 576..671: the six type records
TypeBytes(recs) ==
    Flat([i \in 1..6 |-> TypeRec(recs[i].data, recs[i].kind, recs[i].bitfield)])

\* offsets 672..783: the generic class, the array type of rank 2, the
\* generic inst with its one type pointer, and an array type of rank 1
TailBytes ==
    Flat(<<P(576), P(728), LE(0, 8), ArrayRec(P(624), 2),
           Arr(1, 744), P(624), ArrayRec(P(576), 1)>>)

\* the type records of the plain image: a class, a pointer to it, a vector
\* of the record that follows it, a record of the kind given, an array and a
\* generic instance. kind is the kind byte of the fourth record and bitfield
\* the flag byte of the first.
PlainTypes(kind, bitfield) ==
    <<[data |-> LE(0, 8), kind |-> 18, bitfield |-> bitfield],
      [data |-> P(576), kind |-> 15, bitfield |-> 0],
      [data |-> P(624), kind |-> 29, bitfield |-> 0],
      [data |-> <<7, 1, 0, 0, 9, 0, 0, 0>>, kind |-> kind, bitfield |-> 0],
      [data |-> P(696), kind |-> 20, bitfield |-> 0],
      [data |-> P(672), kind |-> 21, bitfield |-> 32]>>

\* the relocations of every image: one of another kind, the pointer cell at
\* 72, and the two field offsets at 544
PlainRelocs ==
    <<[addr |-> P(64), kind |-> 257, absolute |-> TRUE, addend |-> P(0)],
      [addr |-> P(72), kind |-> R_AARCH64_RELATIVE, absolute |-> TRUE,
       addend |-> P(32)],
      [addr |-> P(544), kind |-> R_AARCH64_RELATIVE, absolute |-> TRUE,
       addend |-> LE(16, 4) \o LE(24, 4)]>>

\* what varies between the images: the type records and the addresses of the
\* type table, the address of the module's method pointers, .bss and the
\* field offset pointers
Plain ==
    [recs |-> PlainTypes(8, 0),
     type_addrs |-> <<P(576), P(592), P(608), P(624), P(640), P(656)>>,
     method_pointers |-> LE(BssBase, 8),
     bss |-> [present |-> TRUE, address |-> BssBase, size |-> 64],
     field_offset_ptrs |-> <<P(544), LE(0, 8)>>]

ImageBytes(o) ==
    CodeBytes \o Zero(16) \o CodeRegistrationBytes \o MetadataRegistrationBytes
    \o PointerBytes \o ModuleBytes(o.method_pointers)
    \o AddressBytes(o.type_addrs, o.field_offset_ptrs) \o TypeBytes(o.recs)
    \o TailBytes

\* the image as the ELF parser presents it: one segment maps the whole file
ImageOf(o) ==
    [valid |-> TRUE,
     data |-> ImageBytes(o),
     segments |-> <<[address |-> V(0), size |-> Len(ImageBytes(o)),
                     file_start |-> 0, file_size |-> Len(ImageBytes(o))]>>,
     bss |-> o.bss,
     dynsyms |-> <<[name |-> "il2cpp_free", address |-> P(48)],
                   [name |-> "il2cpp_init", address |-> P(0)]>>,
     relocs |-> PlainRelocs]

Image(kind, bitfield) == ImageOf([Plain EXCEPT !.recs = PlainTypes(kind, bitfield)])

GoodElf == Image(8, 0)

\* bytes the ELF parser rejects
NotElf == [valid |-> FALSE, data |-> <<1, 2, 3>>, segments |-> <<>>,
           bss |-> [present |-> FALSE, address |-> 0, size |-> 0],
           dynsyms |-> <<>>, relocs |-> <<>>]

\* the image without its il2cpp_init symbol
NoInitElf == [GoodElf EXCEPT !.dynsyms = <<@[1]>>]

\* the image with a relocation whose address no segment maps
BadRelocElf ==
    [GoodElf EXCEPT !.relocs = Append(@, [addr |-> LE(16, 8),
                                           kind |-> R_AARCH64_RELATIVE,
                                           absolute |-> TRUE,
                                           addend |-> P(0)])]

\* the image whose code registration lists a module no segment maps
BadModuleElf ==
    [GoodElf EXCEPT !.data = WriteAt(@, 344, LE(16, 8))]

\* the image with the instruction at a file offset replaced
Patched(off, ins) == [GoodElf EXCEPT !.data = WriteAt(@, off, ins)]

\* the image whose runtime init adds 8000 before its load, so that the load
\* is at an address no segment maps, and the one whose load is at the last
\* four bytes of the file
UnmappedLoadElf == Patched(20, Ins(2, 136, 8000))

ShortLoadElf == Patched(20, Ins(2, 136, 716))

\* the image with n instructions that the analyser ignores after its last
\* byte, in the same segment, and with the second BL of il2cpp_init going
\* to the first of them
Extended(n) ==
    [GoodElf EXCEPT
        !.data = WriteAt(@, 8, Ins(4, 0, V(Len(GoodElf.data)))) \o Zero(4 * n),
        !.segments = <<[address |-> V(0), size |-> Len(GoodElf.data) + 4 * n,
                        file_start |-> 0,
                        file_size |-> Len(GoodElf.data) + 4 * n]>>]

\* a runtime init of 200 instructions without a BLR
NoBlrElf == Extended(BlrLimit)

\* the images whose BLR is of X9, which no instruction sets, and whose
\* setter does not set X0, or X1
NoTargetElf == Patched(28, Ins(5, 144, 0))

NoX0Elf == Patched(32, Ins(0, 0, 0))

NoX1Elf == Patched(40, Ins(0, 0, 0))

\* type tables with references back, forward and to the record itself, with
\* an address listed twice, and with array records sharing and not sharing
\* their array type
TypeTables ==
    {[Plain EXCEPT !.recs[2].data = d] : d \in {P(592), P(656), P(608)}}
    \cup {[Plain EXCEPT !.type_addrs[3] = P(576)],
          [Plain EXCEPT !.type_addrs[6] = P(592)],
          [Plain EXCEPT !.recs[4] = [data |-> P(696), kind |-> 20, bitfield |-> 0]],
          [Plain EXCEPT !.recs[4] = [data |-> P(752), kind |-> 20, bitfield |-> 0]],
          [Plain EXCEPT !.recs[1] = [data |-> P(696), kind |-> 20, bitfield |-> 0],
                        !.recs[4] = [data |-> P(752), kind |-> 20, bitfield |-> 0]],
          [Plain EXCEPT !.recs[1] = [data |-> P(752), kind |-> 20, bitfield |-> 0],
                        !.recs[4] = [data |-> P(752), kind |-> 20, bitfield |-> 0]]}

\* .bss sections: the plain one, none, and one that overlaps the segment
BssSections ==
    {Plain.bss, [present |-> FALSE, address |-> 0, size |-> 0],
     [present |-> TRUE, address |-> V(0), size |-> 8192]}

\* addresses of the module's method pointers: the first and the last byte of
\* the plain .bss, the byte after it, and an address of the segment
MethodPointerAddrs == {LE(BssBase, 8), LE(BssBase + 63, 8), LE(BssBase + 64, 8), P(328)}

ModuleImages ==
    {[Plain EXCEPT !.bss = b, !.method_pointers = a] :
        b \in BssSections, a \in MethodPointerAddrs}

\* field offset pointers: null first, both null, both set
FieldOffsetImages ==
    {[Plain EXCEPT !.field_offset_ptrs = f] :
        f \in {<<LE(0, 8), P(544)>>, <<LE(0, 8), LE(0, 8)>>, <<P(544), P(548)>>}}

\* the plain image with the rank byte of its first array type set to rank
RankElf(rank) == Patched(704, <<rank>>)

\* the images whose types are named: the type tables, the ranks 0, 1, 2, 3
\* and 255, and a fourth record of the kinds Var, Object, Mvar and Typedbyref
NameImages ==
    {ImageOf(o) : o \in TypeTables} \cup {RankElf(rank) : rank \in {0, 1, 2, 3, 255}}
    \cup {Image(kind, 0) : kind \in {19, 28, 30, 22}}

\* the plain image with the counted array at the file offset off made
\* empty, its pointer the one given
EmptyArrayAt(off, pointer) == Patched(off, LE(0, 4) \o LE(0, 4) \o pointer)

\* a counted array of g_CodeRegistration (reverse_pinvoke_wrappers), of
\* g_MetadataRegistration (generic_method_table), of the module
\* (adjustor_thunks) and of the generic inst
CountedArrays == {80, 248, 376, 728}

\* the null pointer and an address below the segment
StrayPointers == {LE(0, 8), LE(64, 8)}

ElfInputs ==
    {Image(k, 0) : k \in 0..255} \cup {Image(8, b) : b \in 0..255}
    \cup {ImageOf(o) : o \in TypeTables \cup ModuleImages \cup FieldOffsetImages}
    \cup {NotElf, NoInitElf, BadRelocElf, BadModuleElf}
    \cup {UnmappedLoadElf, ShortLoadElf}
    \cup {NoBlrElf, NoTargetElf, NoX0Elf, NoX1Elf}
    \cup {EmptyArrayAt(off, pointer) : off \in CountedArrays, pointer \in StrayPointers}
    \cup NameImages

-----------------------------------------------------------------------------
(* The state machine. A behaviour is one call of the library: either       *)
(* Metadata::parse, carried out stage by stage, or one of the pure         *)
(* functions. checks tells whether the build has overflow checks.          *)

None == [kind |-> "None"]

\* the pairs of inputs Metadata::parse is called with
ParseInputs ==
    {<<g, e>> : g \in GlobalInputs, e \in {GoodElf, NotElf, NoInitElf}}
    \cup {<<GoodGlobal, e>> : e \in ElfInputs}
    \cup {<<TwoTypeDefinitions, ImageOf(o)>> : o \in FieldOffsetImages}
    \cup {<<TopLevelTypes, e>> : e \in NameImages}

\* how an Il2CppBinaryError (or a panic) of the runtime read leaves parse:
\* `?` wraps the error in MetadataParseError::Binary
Fail(r) ==
    IF r.kind = "Panic" THEN Panic
    ELSE Err("Binary", [err |-> r.err, arg |-> r.arg])

Init ==
    /\ checks \in BOOLEAN
    /\ pc = "idle"
    /\ gdata = <<>>
    /\ edata = NotElf
    /\ gmd = None
    /\ relocated = <<>>
    /\ roots = None
    /\ cr = None
    /\ mr = None
    /\ stages = <<>>
    /\ result = None
    /\ call = None

\* Metadata::parse is entered with its two byte strings
ParseCall(g, e) ==
    /\ pc = "idle"
    /\ gdata' = g
    /\ edata' = e
    /\ pc' = "deserialize"
    /\ UNCHANGED <<checks, gmd, relocated, roots, cr, mr, stages, result, call>>

\* DeserializeStep going on to the ELF after an error of deserialize
DeserializeStep_continue ==
    /\ pc = "deserialize"
    /\ stages' = Append(stages, "global_metadata")
    /\ \E r \in {Deserialize(gdata)} :
           /\ gmd' = r
           /\ CASE r.kind = "Ok" ->
                     /\ pc' = "elf_parse"
                     /\ UNCHANGED result
                [] r.kind = "Err" ->
                     /\ result' = None
                     /\ pc' = "elf_parse"
                [] OTHER ->
                     /\ result' = Panic
                     /\ pc' = "done"
    /\ UNCHANGED <<checks, gdata, edata, relocated, roots, cr, mr, call>>

\* lib.rs line 50: global_metadata::deserialize(global_metadata)?  gmd keeps
\* the outcome of deserialize together with the tables the cursor was moved
\* for; an error leaves parse wrapped in MetadataParseError::GlobalMetadata
DeserializeStep ==
    /\ pc = "deserialize"
    /\ stages' = Append(stages, "global_metadata")
    /\ \E r \in {Deserialize(gdata)} :
           /\ gmd' = r
           /\ CASE r.kind = "Ok" ->
                     /\ pc' = "elf_parse"
                     /\ UNCHANGED result
                [] r.kind = "Err" ->
                     /\ result' = Err("GlobalMetadata",
                                      [err |-> r.err, arg |-> r.arg])
                     /\ pc' = "done"
                [] OTHER ->
                     /\ result' = Panic
                     /\ pc' = "done"
    /\ UNCHANGED <<checks, gdata, edata, relocated, roots, cr, mr, call>>

\* read_elf: Elf::parse(elf_data)?
ElfParseStep ==
    /\ pc = "elf_parse"
    /\ stages' = Append(stages, "elf_parse")
    /\ IF edata.valid
       THEN pc' = "relocate" /\ UNCHANGED result
       ELSE pc' = "done" /\ result' = Fail(Err("Elf", <<>>))
    /\ UNCHANGED <<checks, gdata, edata, gmd, relocated, roots, cr, mr, call>>

\* RuntimeMetadata::read: process_relocations(elf)?
ProcessRelocationsStep ==
    /\ pc = "relocate"
    /\ stages' = Append(stages, "runtime_read")
    /\ \E r \in {process_relocations(edata)} :
           IF r.kind = "Ok"
           THEN relocated' = r.value /\ pc' = "find_registration" /\ UNCHANGED result
           ELSE result' = Fail(r) /\ pc' = "done" /\ UNCHANGED relocated
    /\ UNCHANGED <<checks, gdata, edata, gmd, roots, cr, mr, call>>

\* RuntimeMetadata::read: find_registration(elf, &elf_rel)?
FindRegistrationStep ==
    /\ pc = "find_registration"
    /\ \E r \in {find_registration(edata, relocated, checks)} :
           IF r.kind = "Ok"
           THEN roots' = r /\ pc' = "code_registration" /\ UNCHANGED result
           ELSE result' = Fail(r) /\ pc' = "done" /\ UNCHANGED roots
    /\ UNCHANGED <<checks, gdata, edata, gmd, relocated, cr, mr, stages, call>>

\* RuntimeMetadata::read: Il2CppCodeRegistration::read(elf, &elf_rel, cr_addr)?
CodeRegistrationStep ==
    /\ pc = "code_registration"
    /\ \E r \in {Il2CppCodeRegistration_read(edata, relocated, roots.cr)} :
           IF r.kind = "Ok"
           THEN cr' = r /\ pc' = "metadata_registration" /\ UNCHANGED result
           ELSE result' = Fail(r) /\ pc' = "done" /\ UNCHANGED cr
    /\ UNCHANGED <<checks, gdata, edata, gmd, relocated, roots, mr, stages, call>>

\* Il2CppMetadataRegistration::read up to its first loop
MetadataRegistrationStep ==
    /\ pc = "metadata_registration"
    /\ \E r \in {MetadataRegistrationBegin(edata, relocated, roots.mr)} :
           IF r.kind = "Ok"
           THEN mr' = r /\ pc' = "loops" /\ UNCHANGED result
           ELSE result' = Fail(r) /\ pc' = "done" /\ UNCHANGED mr
    /\ UNCHANGED <<checks, gdata, edata, gmd, relocated, roots, cr, stages, call>>

\* one round of the loop named loop of Il2CppMetadataRegistration::read, r
\* being what the round makes of the reader's state
LoopRound(loop, r) ==
    /\ pc = "loops"
    /\ CurrentLoop(mr.value) = loop
    /\ IF r.kind = "Ok"
       THEN mr' = r /\ UNCHANGED <<pc, result>>
       ELSE result' = Fail(r) /\ pc' = "done" /\ UNCHANGED mr
    /\ UNCHANGED <<checks, gdata, edata, gmd, relocated, roots, cr, stages, call>>

GenericClassLoop ==
    /\ pc = "loops"
    /\ LoopRound("generic_classes",
                 GenericClassRound(ElfReader(edata, relocated), mr.value))

TypeLoop ==
    /\ pc = "loops"
    /\ LoopRound("types", TypeRound(ElfReader(edata, relocated), mr.value))

GenericInstLoop ==
    /\ pc = "loops"
    /\ LoopRound("generic_insts",
                 GenericInstRound(ElfReader(edata, relocated), mr.value))

SizesLoop ==
    /\ pc = "loops"
    /\ LoopRound("type_definition_sizes",
                 SizesRound(ElfReader(edata, relocated), mr.value))

FieldOffsetsLoop ==
    /\ pc = "loops"
    /\ LoopRound("field_offsets",
                 FieldOffsetsRound(ElfReader(edata, relocated), mr.value,
                                   gmd.tables))

\* the loops are over: RuntimeMetadata::read and Metadata::parse return Ok
MetadataReturn ==
    /\ pc = "loops"
    /\ CurrentLoop(mr.value) = "return"
    /\ result' = [kind |-> "Ok",
                  global_metadata |-> gmd.tables,
                  runtime_metadata |->
                    [code_registration |-> cr.value,
                     metadata_registration |-> MetadataRegistrationOf(mr.value)]]
    /\ pc' = "done"
    /\ UNCHANGED <<checks, gdata, edata, gmd, relocated, roots, cr, mr, stages, call>>

-----------------------------------------------------------------------------
(* Calls of the pure functions, each on an argument of the sample sets.    *)

LowBytes == {0, 1, 2, 6, 7, 254, 255}

MidBytes == {0, 1, 255}

HighBytes == {32 * k : k \in 0..7} \cup {1, 6, 31, 159, 255}

\* 32-bit words with every value of the three highest bits, with bit 0 set
\* and clear, and with 0x06000007, 0x60000006 and 0xFFFFFFFF among them
Words32 == {<<a, b, c, d>> : a \in LowBytes, b \in MidBytes, c \in MidBytes,
                            d \in HighBytes}

\* the largest start index, count and table length taken from zero upwards
\* (and the largest distance of a start index below the maximum of its width)
MaxStart == 3

MaxCount == 3

MaxRows == 4

\* start indices of a width: the small ones and the ones next to the maximum
StartSamples(width) ==
    {LE(n, width) : n \in 0..MaxStart}
    \cup {[i \in 1..width |-> IF i = 1 THEN 255 - n ELSE 255] : n \in 0..MaxStart}

\* count fields of a width
CountSamples(width) ==
    {LE(n, width) : n \in 0..MaxCount} \cup {AllOnes(width)}

\* table lengths: the small ones and the ones around 2^16
RowCounts == (0..MaxRows) \cup {65535, 65536, 65537}

\* the widths in bytes of the start index and of the count field of the range
\* accessors: u32 and u16 (method_count and the like), u32 and u32
\* (type_count and the like), u16 and u16 (constraints)
RangeShapes == {[start |-> 4, count |-> 2], [start |-> 4, count |-> 4],
                [start |-> 2, count |-> 2]}

\* a small ELF for the relocation pass: 24 bytes of file in a segment of 32
\* bytes of memory, with the relocations given
RelocElf(relocs) ==
    [valid |-> TRUE,
     data |-> [i \in 1..24 |-> 100 + i],
     segments |-> <<[address |-> V(0), size |-> 32, file_start |-> 0,
                     file_size |-> 24]>>,
     bss |-> [present |-> FALSE, address |-> 0, size |-> 0],
     dynsyms |-> <<>>,
     relocs |-> relocs]

\* relocations: relative ones at the offsets 0, 4 and 8 (their windows
\* overlap) and 20 (its window ends past the file), one of another kind, a
\* relative one at an address no segment maps and one of another kind there
RelocPool ==
    {[addr |-> P(0), kind |-> R_AARCH64_RELATIVE, absolute |-> TRUE,
      addend |-> <<1, 2, 3, 4, 5, 6, 7, 8>>],
     [addr |-> P(4), kind |-> R_AARCH64_RELATIVE, absolute |-> TRUE,
      addend |-> <<11, 12, 13, 14, 15, 16, 17, 18>>],
     [addr |-> P(8), kind |-> R_AARCH64_RELATIVE, absolute |-> TRUE,
      addend |-> LE(0, 8)],
     [addr |-> P(20), kind |-> R_AARCH64_RELATIVE, absolute |-> TRUE,
      addend |-> <<21, 22, 23, 24, 25, 26, 27, 28>>],
     [addr |-> P(4), kind |-> 257, absolute |-> TRUE,
      addend |-> <<31, 32, 33, 34, 35, 36, 37, 38>>],
     [addr |-> P(64), kind |-> R_AARCH64_RELATIVE, absolute |-> TRUE,
      addend |-> P(0)],
     [addr |-> P(64), kind |-> 1026, absolute |-> TRUE,
      addend |-> <<41, 42, 43, 44, 45, 46, 47, 48>>]}

\* the longest relocation list of a small ELF
MaxRelocs == 3

RelocInputs ==
    {RelocElf(relocs) : relocs \in UNION {[1..n -> RelocPool] : n \in 0..MaxRelocs}}
    \cup {GoodElf, BadRelocElf}

\* process_relocations on an ELF, and once more on the same ELF with the
\* relocated bytes as its data
relocate_call(elf) ==
    /\ pc = "idle"
    /\ \E once \in {process_relocations(elf)} :
           call' = [op |-> "process_relocations", elf |-> elf, once |-> once,
                    twice |-> IF once.kind = "Ok"
                              THEN process_relocations([elf EXCEPT !.data = once.value])
                              ELSE None]
    /\ pc' = "returned"
    /\ UNCHANGED <<checks, gdata, edata, gmd, relocated, roots, cr, mr, stages,
                   result>>

Token_ty_call(t) ==
    /\ pc = "idle"
    /\ call' = [op |-> "Token::ty", arg |-> t, ret |-> Token_ty(t)]
    /\ pc' = "returned"
    /\ UNCHANGED <<checks, gdata, edata, gmd, relocated, roots, cr, mr, stages,
                   result>>

Token_rid_call(t) ==
    /\ pc = "idle"
    /\ call' = [op |-> "Token::rid", arg |-> t, ret |-> Token_rid(t)]
    /\ pc' = "returned"
    /\ UNCHANGED <<checks, gdata, edata, gmd, relocated, roots, cr, mr, stages,
                   result>>

decode_call(x) ==
    /\ pc = "idle"
    /\ call' = [op |-> "EncodedMethodIndex::decode", arg |-> x,
                ret |-> EncodedMethodIndex_decode(x)]
    /\ pc' = "returned"
    /\ UNCHANGED <<checks, gdata, edata, gmd, relocated, roots, cr, mr, stages,
                   result>>

\* a range accessor on a record whose start field is start and whose count
\* field is count, over a target table of tlen rows
range_call(start, count, tlen) ==
    /\ pc = "idle"
    /\ call' = [op |-> "range_helper", start |-> start, count |-> count,
                tlen |-> tlen, ret |-> range_helper(start, count, tlen, checks)]
    /\ pc' = "returned"
    /\ UNCHANGED <<checks, gdata, edata, gmd, relocated, roots, cr, mr, stages,
                   result>>

\* the cross-link accessor a on a record whose index field is idx, over a
\* target table of tlen rows
accessor_call(a, idx, tlen) ==
    /\ pc = "idle"
    /\ call' = [op |-> "accessor", accessor |-> a, idx |-> idx, tlen |-> tlen,
                ret |-> Accessor(a, idx, tlen)]
    /\ pc' = "returned"
    /\ UNCHANGED <<checks, gdata, edata, gmd, relocated, roots, cr, mr, stages,
                   result>>

\* the largest string index taken from zero upwards
MaxStringIndex == 13

StringIndices == {LE(n, 4) : n \in 0..MaxStringIndex} \cup {AllOnes(4)}

\* metadata.global_metadata.string[index] on the Metadata that parse returned
string_index_call(index) ==
    /\ pc = "done" /\ result.kind = "Ok" /\ call = None
    /\ call' = [op |-> "StringData::index", index |-> index,
                ret |-> StringData_index(
                            GlobalTable(result.global_metadata, "string").data,
                            index)]
    /\ UNCHANGED <<checks, pc, gdata, edata, gmd, relocated, roots, cr, mr,
                   stages, result>>

\* full_name called on the type t of the Metadata that parse returned; the
\* call is taken for the kinds the outer match names
full_name_call(t) ==
    /\ pc = "done" /\ result.kind = "Ok" /\ call = None
    /\ t \in 1..Len(result.runtime_metadata.metadata_registration.types)
    /\ \E self \in {result.runtime_metadata.metadata_registration.types[t]} :
           /\ Il2CppType_full_name(self) # ""
           /\ call' = [op |-> "Il2CppType::full_name", self |-> self,
                       ret |-> Il2CppType_full_name(self)]
    /\ UNCHANGED <<checks, pc, gdata, edata, gmd, relocated, roots, cr, mr,
                   stages, result>>

\* full_name called on the type t of the Metadata that parse returned,
\* carried out with every call it makes
Il2CppType_full_name_call(t) ==
    /\ pc = "done" /\ result.kind = "Ok" /\ call = None
    /\ t \in 1..Len(result.runtime_metadata.metadata_registration.types)
    /\ call' = [op |-> "full_name", t |-> t,
                self |-> result.runtime_metadata.metadata_registration.types[t],
                ret |-> Il2CppType_full_name_in(
                            result,
                            result.runtime_metadata.metadata_registration.types[t],
                            CallChain(result), checks)]
    /\ UNCHANGED <<checks, pc, gdata, edata, gmd, relocated, roots, cr, mr,
                   stages, result>>

\* a loadable segment as the ELF parser presents it
Segment(address, size, file_start, file_size) ==
    [address |-> address, size |-> size, file_start |-> file_start,
     file_size |-> file_size]

\* segment tables: none, one, two apart, two that overlap in both file
\* orders, and one whose size in memory is twice its size in the file
SegmentTables ==
    {<<>>,
     <<Segment(V(0), 64, 0, 64)>>,
     <<Segment(V(0), 64, 0, 64), Segment(V(4096), 32, 64, 32)>>,
     <<Segment(V(0), 64, 0, 64), Segment(V(16), 64, 128, 64)>>,
     <<Segment(V(16), 64, 128, 64), Segment(V(0), 64, 0, 64)>>,
     <<Segment(V(0), 128, 0, 64), Segment(V(4096), 32, 64, 32)>>}

\* addresses at and around the ends of those segments, and two above 2^32
SegmentAddrs ==
    {LE(n, 8) : n \in {0, V(0) - 1, V(0), V(15), V(16), V(24), V(63), V(64),
                       V(79), V(80), V(100), V(127), V(128), V(4096),
                       V(4127), V(4128)}}
    \cup {AllOnes(8), <<0, 16, 0, 0, 1, 0, 0, 0>>}

\* vaddr_conv on an ELF with the segments given
vaddr_conv_call(segments, vaddr) ==
    /\ pc = "idle"
    /\ call' = [op |-> "vaddr_conv", segments |-> segments, vaddr |-> vaddr,
                ret |-> vaddr_conv([segments |-> segments], vaddr)]
    /\ pc' = "returned"
    /\ UNCHANGED <<checks, gdata, edata, gmd, relocated, roots, cr, mr, stages,
                   result>>

\* a small ELF for the analyser: 24 bytes of file in one segment at V(0),
\* with one relative relocation that fills the word at offset 8
AnalyzerElf ==
    RelocElf(<<[addr |-> P(8), kind |-> R_AARCH64_RELATIVE, absolute |-> TRUE,
                addend |-> P(16)]>>)

\* an instruction as the decoder presents it
Instruction(op, a, b, imm) == [op |-> op, a |-> a, b |-> b, imm |-> imm]

\* instructions: ADRP of X1 to the segment and of X2 to an address below it,
\* ADD and LDR with one register and with two, an LDR with a negative
\* offset, an ADD of a register that is never set, and a BL
InstructionPool ==
    {Instruction("ADRP", 1, 1, V(0)), Instruction("ADRP", 2, 2, 7),
     Instruction("ADD", 1, 1, 8), Instruction("ADD", 1, 2, 8),
     Instruction("ADD", 3, 3, 1),
     Instruction("LDR", 1, 1, 0), Instruction("LDR", 1, 1, -8),
     Instruction("LDR", 2, 1, 0), Instruction("BL", 0, 0, V(0))}

\* the longest instruction sequence analysed
MaxInstructions == 3

InstructionLists == UNION {[1..n -> InstructionPool] : n \in 0..MaxInstructions}

\* analyze_reg_rel on the small ELF, its relocated bytes and an instruction
\* sequence
analyze_call(instructions) ==
    /\ pc = "idle"
    /\ call' = [op |-> "analyze_reg_rel", instructions |-> instructions,
                ret |-> analyze_reg_rel(AnalyzerElf,
                                        process_relocations(AnalyzerElf).value,
                                        instructions, 1, EmptyMap, checks)]
    /\ pc' = "returned"
    /\ UNCHANGED <<checks, gdata, edata, gmd, relocated, roots, cr, mr, stages,
                   result>>

\* code for nth_bl: BL to two targets, an instruction of another kind and
\* bytes the decoder rejects
CodePool == {Ins(4, 0, V(0)), Ins(4, 0, V(8)), Ins(0, 0, 0), Ins(255, 0, 0)}

\* the longest code scanned, in instructions
MaxCode == 3

\* the code alone in a file, without and with two more bytes after its last
\* instruction
CodeFiles ==
    {Flat(c) \o t : c \in UNION {[1..n -> CodePool] : n \in 0..MaxCode},
                    t \in {<<>>, <<4, 0>>}}

\* an ELF whose one segment maps the whole file at V(0)
CodeElf(code) ==
    [data |-> code, segments |-> <<Segment(V(0), Len(code), 0, Len(code))>>]

\* nth_bl on such an ELF
nth_bl_call(code, addr, n) ==
    /\ pc = "idle"
    /\ call' = [op |-> "nth_bl", code |-> code, addr |-> addr, n |-> n,
                ret |-> nth_bl(CodeElf(code), addr, n)]
    /\ pc' = "returned"
    /\ UNCHANGED <<checks, gdata, edata, gmd, relocated, roots, cr, mr, stages,
                   result>>

Next ==
    \/ \E in \in ParseInputs : ParseCall(in[1], in[2])
    \/ DeserializeStep
    \/ ElfParseStep
    \/ ProcessRelocationsStep
    \/ FindRegistrationStep
    \/ CodeRegistrationStep
    \/ MetadataRegistrationStep
    \/ GenericClassLoop
    \/ TypeLoop
    \/ GenericInstLoop
    \/ SizesLoop
    \/ FieldOffsetsLoop
    \/ MetadataReturn
    \/ \E t \in Words32 : Token_ty_call(t)
    \/ \E t \in Words32 : Token_rid_call(t)
    \/ \E x \in Words32 : decode_call(x)
    \/ \E shape \in RangeShapes :
         \E start \in StartSamples(shape.start), count \in CountSamples(shape.count),
            tlen \in RowCounts :
           range_call(start, count, tlen)
    \/ \E a \in Accessors :
         \E idx \in StartSamples(a.width), tlen \in RowCounts :
           accessor_call(a, idx, tlen)
    \/ \E elf \in RelocInputs : relocate_call(elf)
    \/ \E t \in 1..6 : full_name_call(t)
    \/ \E index \in StringIndices : string_index_call(index)
    \/ \E segments \in SegmentTables, vaddr \in SegmentAddrs :
         vaddr_conv_call(segments, vaddr)
    \/ \E instructions \in InstructionLists : analyze_call(instructions)
    \/ \E code \in CodeFiles, addr \in {P(0), P(4)}, n \in 1..2 :
         nth_bl_call(code, addr, n)
    \/ \E t \in 1..6 : Il2CppType_full_name_call(t)

Spec == Init /\ [][Next]_vars

-----------------------------------------------------------------------------
(* Properties of global_metadata::deserialize.                             *)

\* global_metadata::deserialize has returned on the bytes gdata
Deserialized == pc \notin {"idle", "returned", "deserialize"}

\* parse has ended with the GlobalMetadata error e carrying a
RejectedWith(e, a) ==
    /\ pc = "done"
    /\ gmd.kind = "Err" /\ gmd.err = e /\ gmd.arg = a
    /\ result = Err("GlobalMetadata", [err |-> e, arg |-> a])

\* the input has a first word and it is not the magic
BadSanity == Len(gdata) >= 4 /\ Bytes(gdata, 0, 4) # <<175, 27, 177, 250>>

\* the input has the magic and a second word that is not 31
BadVersion ==
    /\ Len(gdata) >= 8
    /\ Bytes(gdata, 0, 4) = <<175, 27, 177, 250>>
    /\ Bytes(gdata, 4, 4) # <<31, 0, 0, 0>>

\* C1 as stated: every input, of any length, whose first word is not
\* 0xFAB11BAF is rejected with SanityCheck
C1_AnyLength == (Deserialized /\ BadSanity) => RejectedWith("SanityCheck", <<>>)

\* C1: an input holding the whole 256-byte header whose first word is not
\* 0xFAB11BAF is rejected with SanityCheck whatever its version word and the
\* rest of its bytes are (the sanity check comes before the version check);
\* a shorter input is rejected with Bin before any check, no table being read
C1_SanityFirst ==
    (Deserialized /\ BadSanity) =>
        /\ gmd.seeks = {}
        /\ IF Len(gdata) >= 256 THEN RejectedWith("SanityCheck", <<>>)
           ELSE RejectedWith("Bin", <<>>)

\* C1, its case: a whole header with neither the magic nor version 31 has
\* been rejected
C1_Witness ==
    /\ Deserialized /\ BadSanity
    /\ Len(gdata) >= 256
    /\ Bytes(gdata, 4, 4) # <<31, 0, 0, 0>>
    /\ result.kind = "Err"

\* C2 as stated: every input with the magic and a second word v other than
\* 31 is rejected with VersionCheck(v), no table being read
C2_AnyLength ==
    (Deserialized /\ BadVersion) =>
        /\ RejectedWith("VersionCheck", Bytes(gdata, 4, 4))
        /\ gmd.seeks = {}

\* C2: an input holding the whole 256-byte header, with the magic and a
\* second word v other than 31, is rejected with VersionCheck(v) carrying
\* exactly v; a shorter input is rejected with Bin; either way no table is read
C2_VersionCheck ==
    (Deserialized /\ BadVersion) =>
        /\ gmd.seeks = {}
        /\ IF Len(gdata) >= 256
           THEN RejectedWith("VersionCheck", Bytes(gdata, 4, 4))
           ELSE RejectedWith("Bin", <<>>)

\* C2, its case: a whole header with the magic and version 30 has been
\* rejected
C2_Witness ==
    /\ Deserialized /\ BadVersion
    /\ Len(gdata) >= 256
    /\ Bytes(gdata, 4, 4) = <<30, 0, 0, 0>>
    /\ result.kind = "Err"

\* the recorded offset and length of table i in a whole header
RecordedOffset(i) == Bytes(gdata, 8 * i, 4)

RecordedLen(i) == Bytes(gdata, 8 * i + 4, 4)

\* table i of the GlobalMetadata has no rows (or is an empty slice)
NoRows(i) ==
    IF gmd.tables[i].kind = "basic" THEN gmd.tables[i].table = <<>>
    ELSE gmd.tables[i].data = <<>>

\* the input is a whole header with the magic and version 31
ValidHeader ==
    /\ Len(gdata) >= 256
    /\ Bytes(gdata, 0, 4) = <<175, 27, 177, 250>>
    /\ Bytes(gdata, 4, 4) = <<31, 0, 0, 0>>

\* C3: after a valid header a table whose recorded length is 0 is empty and
\* the cursor is never moved to its recorded offset, whatever the offset is;
\* when all 31 lengths are 0 deserialize succeeds and no table has a row
C3_EmptyTables ==
    (Deserialized /\ ValidHeader) =>
        /\ \A i \in 1..31 :
             RecordedLen(i) = <<0, 0, 0, 0>> =>
                 /\ i \notin gmd.seeks
                 /\ gmd.kind = "Ok" => NoRows(i)
        /\ (\A i \in 1..31 : RecordedLen(i) = <<0, 0, 0, 0>>) =>
               /\ gmd.kind = "Ok"
               /\ Len(gmd.tables) = 31
               /\ \A i \in 1..31 : NoRows(i)

\* C3, its case: a header whose 31 lengths are 0 and whose offsets lie past
\* the end of the file has been deserialized
C3_Witness ==
    /\ Deserialized /\ ValidHeader
    /\ \A i \in 1..31 :
         /\ RecordedLen(i) = <<0, 0, 0, 0>>
         /\ RecordedOffset(i) = <<255, 255, 255, 255>>
    /\ gmd.kind = "Ok"

-----------------------------------------------------------------------------
(* Properties of Metadata::parse.                                          *)

\* the stages of parse in the order of lib.rs lines 50-51 and elf.rs 575-576
StageOrder == <<"global_metadata", "elf_parse", "runtime_read">>

\* C4: parse runs global-metadata deserialize, then the ELF parse, then the
\* runtime read, and stops at the first that fails. When deserialize rejects
\* the global bytes the result is GlobalMetadata(e) and no stage has looked at
\* the ELF; the ELF is looked at only after deserialize succeeded; a Metadata
\* is returned only at the end, after all stages succeeded, and it holds the
\* tables and the registrations the stages built.
C4_StagesInOrder ==
    /\ Len(stages) <= 3
    /\ stages = SubSeq(StageOrder, 1, Len(stages))
    /\ (Deserialized /\ gmd.kind = "Err") =>
           /\ pc = "done"
           /\ stages = <<"global_metadata">>
           /\ result = Err("GlobalMetadata", [err |-> gmd.err, arg |-> gmd.arg])
    /\ Len(stages) >= 2 => gmd.kind = "Ok"
    /\ (Len(stages) >= 2 /\ ~edata.valid) =>
           /\ pc = "done"
           /\ stages = <<"global_metadata", "elf_parse">>
           /\ result = Err("Binary", [err |-> "Elf", arg |-> <<>>])
    /\ (pc # "done") => result = None
    /\ (pc = "done") => result.kind \in {"Ok", "Err", "Panic"}
    /\ result.kind = "Ok" =>
           /\ stages = StageOrder
           /\ gmd.kind = "Ok" /\ cr.kind = "Ok" /\ mr.kind = "Ok"
           /\ CurrentLoop(mr.value) = "return"
           /\ result.global_metadata = gmd.tables
           /\ result.runtime_metadata.code_registration = cr.value
           /\ result.runtime_metadata.metadata_registration.types = mr.value.types

\* C4, its case: the global bytes were rejected although the ELF is a good one
C4_Witness ==
    /\ pc = "done"
    /\ gmd.kind = "Err"
    /\ edata.valid /\ Len(edata.data) > 0
    /\ result.kind = "Err"

-----------------------------------------------------------------------------
(* Properties of the token, encoded-index, range and cross-link accessors. *)

\* a call of the operation op has returned
Returned(op) == pc = "returned" /\ call.op = op

\* C5: for every 32-bit token t the kind accessor returns t >> 24, a value
\* in 0..255, and the rid accessor returns t & 0x00FFFFFF
C5_TokenAccessors ==
    /\ Returned("Token::ty") =>
           call.ret = <<call.arg[4], 0, 0, 0>>
    /\ Returned("Token::rid") =>
           call.ret = <<call.arg[1], call.arg[2], call.arg[3], 0>>

\* the names of the kinds 1..7 of an encoded method index
DecodedKinds == <<"TypeInfo", "Il2CppType", "MethodDef", "FieldInfo",
                  "StringLiteral", "MethodRef", "FieldRva">>

\* C6: for every 32-bit x decode returns without aborting; with ty the three
\* highest bits of x and idx the bits 1..28, ty 1..7 yield TypeInfo,
\* Il2CppType, MethodDef, FieldInfo, StringLiteral, MethodRef, FieldRva
\* carrying idx, and ty 0 yields Invalid(NoData) when bit 0 of x is 0 and
\* Invalid(AmbiguousMethod) when it is 1
C6_Decode ==
    Returned("EncodedMethodIndex::decode") =>
        LET x == call.arg
            ty == x[4] \div 32
            idx == (x[4] % 32) * 8388608 + x[3] * 32768 + x[2] * 128
                     + x[1] \div 2
        IN  /\ call.ret.tag # "Panic"
            /\ ty = 0 /\ x[1] % 2 = 0 =>
                   call.ret = [tag |-> "Invalid", why |-> "NoData"]
            /\ ty = 0 /\ x[1] % 2 = 1 =>
                   call.ret = [tag |-> "Invalid", why |-> "AmbiguousMethod"]
            /\ ty \in 1..7 =>
                   call.ret = [tag |-> DecodedKinds[ty], idx |-> idx]

\* C6, its case: 0x60000006 was decoded to MethodDef 3
C6_Witness ==
    /\ Returned("EncodedMethodIndex::decode")
    /\ call.arg = <<6, 0, 0, 96>>
    /\ call.ret = [tag |-> "MethodDef", idx |-> 3]

\* start + count as an integer sum that does not wrap at the index width
FullSum(start, count) == WordAdd(CastTo(start, 8), CastTo(count, 8)).sum

\* C7: a range accessor with count = 0 returns an empty slice for any start
\* and any table; with count > 0 it returns exactly the rows start, ...,
\* start + count - 1 of the target table (when the table has them), start +
\* count being a sum that does not wrap around at the index width
C7_Ranges ==
    Returned("range_helper") =>
        IF call.count = LE(0, Len(call.count))
        THEN call.ret.kind = "Slice" /\ call.ret.lo = call.ret.hi
        ELSE WordLe(FullSum(call.start, call.count), LE(call.tlen, 8)) =>
                 call.ret = [kind |-> "Slice", lo |-> CastTo(call.start, 8),
                             hi |-> FullSum(call.start, call.count)]

\* C8: a cross-link accessor on a record whose index field is the maximum of
\* its width reports absence and does not index the target table
C8_InvalidIndex ==
    (Returned("accessor") /\ call.idx = AllOnes(Len(call.idx))) =>
        call.ret = [kind |-> "None"]

-----------------------------------------------------------------------------
(* Properties of the runtime type records.                                 *)

\* the file offset of the i-th type record of the metadata registration
RecordAt(i) == make_cur(ElfReader(edata, relocated), mr.value.type_addrs[i])

\* its kind byte and its flag byte, as they lie in the relocated bytes
KindByte(i) == relocated[RecordAt(i).value + 11]

FlagByte(i) == relocated[RecordAt(i).value + 12]

\* the kinds listed for the kind bytes 0x00..0x16, 0x18, 0x19, 0x1b..0x21,
\* 0x40, 0x41, 0x45, 0x55
ListedKinds ==
    [k \in 0..22 |->
       <<"End", "Void", "Boolean", "Char", "I1", "U1", "I2", "U2", "I4", "U4",
         "I8", "U8", "R4", "R8", "String", "Ptr", "Byref", "Valuetype", "Class",
         "Var", "Array", "Genericinst", "Typedbyref">>[k + 1]]
    @@ (24 :> "I" @@ 25 :> "U")
    @@ [k \in 27..33 |->
          <<"Fnptr", "Object", "Szarray", "Mvar", "CmodReqd", "CmodOpt",
            "Internal">>[k - 26]]
    @@ (64 :> "Modifier" @@ 65 :> "Sentinel" @@ 69 :> "Pinned" @@ 85 :> "Enum")

\* the runtime read has reached the type records
TypesInReach == pc \in {"loops", "done"} /\ mr.kind = "Ok"

\* the type loop ended parse at its next record, which can be read up to its
\* kind byte
StoppedAtType ==
    /\ TypesInReach /\ pc = "done"
    /\ CurrentLoop(mr.value) = "types"
    /\ RecordAt(Len(mr.value.types) + 1).kind = "Ok"
    /\ CanRead(relocated, RecordAt(Len(mr.value.types) + 1).value, 11)

\* C9: a type record read has the kind listed for its kind byte, which is
\* one of the 36 listed values; a record whose kind byte k is any other value
\* ends the whole parse with InvalidType(k) carrying that byte, and parse
\* returns InvalidType for no other reason
C9_KindBytes ==
    /\ TypesInReach =>
           \A i \in 1..Len(mr.value.types) :
               /\ KindByte(i) \in DOMAIN ListedKinds
               /\ mr.value.types[i].ty = ListedKinds[KindByte(i)]
    /\ (StoppedAtType /\ KindByte(Len(mr.value.types) + 1) \notin DOMAIN ListedKinds) =>
           result = Err("Binary", [err |-> "InvalidType",
                                   arg |-> KindByte(Len(mr.value.types) + 1)])
    /\ (pc = "done" /\ result.kind = "Err" /\ result.arg.err = "InvalidType") =>
           /\ StoppedAtType
           /\ KindByte(Len(mr.value.types) + 1) \notin DOMAIN ListedKinds
           /\ result.arg.arg = KindByte(Len(mr.value.types) + 1)

\* C9, its case: a record with the kind byte 0x17 ended parse
C9_Witness ==
    /\ StoppedAtType
    /\ KindByte(Len(mr.value.types) + 1) = 23
    /\ result.kind = "Err"

\* C10: for every flag byte b of a type record read, byref is true iff bit 5
\* of b is set, pinned iff bit 6 is set, valuetype iff bit 7 is set, each flag
\* depending on its own bit only
C10_Flags ==
    TypesInReach =>
        \A i \in 1..Len(mr.value.types) :
            /\ mr.value.types[i].byref = ((FlagByte(i) \div 32) % 2 = 1)
            /\ mr.value.types[i].pinned = ((FlagByte(i) \div 64) % 2 = 1)
            /\ mr.value.types[i].valuetype = ((FlagByte(i) \div 128) % 2 = 1)

-----------------------------------------------------------------------------
(* Properties of the runtime graph.                                        *)

\* parse has returned a Metadata
Parsed == pc = "done" /\ result.kind = "Ok"

\* the registration of the Metadata returned
Graph == result.runtime_metadata.metadata_registration

\* i is an index of a table of n rows
IndexOf(i, n) == i \in Nat /\ i < n

\* C11: in a Metadata returned by parse every type index held by a generic
\* inst, by a generic class, by the data of a Ptr or Szarray type and by an
\* array type is in [0, len(types)), and every generic class index held by
\* a Genericinst type is in [0, len(generic_classes))
C11_IndicesInRange ==
    Parsed =>
        /\ \A g \in 1..Len(Graph.generic_insts) :
             \A k \in 1..Len(Graph.generic_insts[g].types) :
                 IndexOf(Graph.generic_insts[g].types[k], Len(Graph.types))
        /\ \A c \in 1..Len(Graph.generic_classes) :
             IndexOf(Graph.generic_classes[c].type_index, Len(Graph.types))
        /\ \A a \in 1..Len(Graph.array_types) :
             IndexOf(Graph.array_types[a].elem_ty, Len(Graph.types))
        /\ \A t \in 1..Len(Graph.types) :
             /\ Graph.types[t].ty \in {"Ptr", "Szarray"} =>
                    /\ Graph.types[t].data.tag = "TypeIndex"
                    /\ IndexOf(Graph.types[t].data.idx, Len(Graph.types))
             /\ Graph.types[t].ty = "Genericinst" =>
                    /\ Graph.types[t].data.tag = "GenericClassIndex"
                    /\ IndexOf(Graph.types[t].data.idx, Len(Graph.generic_classes))

\* C11, its case: a Metadata was returned whose generic inst, generic class
\* and array type tables have rows and one of whose Ptr types points at the
\* last type of the table
C11_Witness ==
    /\ Parsed
    /\ Graph.generic_insts # <<>> /\ Graph.generic_insts[1].types # <<>>
    /\ Graph.generic_classes # <<>> /\ Graph.array_types # <<>>
    /\ \E t \in 1..Len(Graph.types) :
          /\ Graph.types[t].ty = "Ptr"
          /\ Graph.types[t].data.idx = Len(Graph.types) - 1
    /\ \E t \in 1..Len(Graph.types) : Graph.types[t].ty = "Genericinst"

-----------------------------------------------------------------------------
(* Properties of the relocation pass.                                      *)

\* the relative relocations i < j of the ELF of the call write windows that
\* overlap without being the same
Overlapping(i, j) ==
    /\ i < j
    /\ call.elf.relocs[i].kind = 1027 /\ call.elf.relocs[j].kind = 1027
    /\ call.elf.relocs[i].addr # call.elf.relocs[j].addr
    /\ Val(call.elf.relocs[i].addr) - Val(call.elf.relocs[j].addr) \in -7..7

\* C12: the relocation pass run on the bytes it has relocated, with the same
\* relocation list, returns exactly the bytes of the first run, also when two
\* relocations write overlapping 8-byte windows
C12_Idempotent ==
    (Returned("process_relocations") /\ call.once.kind = "Ok") =>
        call.twice = call.once

\* C12, its case: two relocations with overlapping windows and different
\* addends were applied, changed the bytes, and were applied again
C12_Witness ==
    /\ Returned("process_relocations")
    /\ call.once.kind = "Ok" /\ call.twice.kind = "Ok"
    /\ call.once.value # call.elf.data
    /\ \E i, j \in 1..Len(call.elf.relocs) :
          /\ Overlapping(i, j)
          /\ call.elf.relocs[i].addend # call.elf.relocs[j].addend

-----------------------------------------------------------------------------
(* Properties of the calls on a Metadata returned.                         *)

\* the operation op has been called on the Metadata that parse returned
Called(op) == pc = "done" /\ call # None /\ call.op = op

\* the framework names documented for the primitive kinds
CanonicalNames ==
    [k \in {"Void", "Boolean", "Char", "I1", "U1", "I2", "U2", "I4", "U4", "I8",
            "U8", "R4", "R8", "String", "Typedbyref", "I", "U", "Object"} |->
       CASE k = "Void" -> "System.Void"
         [] k = "Boolean" -> "System.Boolean"
         [] k = "Char" -> "System.Char"
         [] k = "I1" -> "System.SByte"
         [] k = "U1" -> "System.Byte"
         [] k = "I2" -> "System.Int16"
         [] k = "U2" -> "System.UInt16"
         [] k = "I4" -> "System.Int32"
         [] k = "U4" -> "System.UInt32"
         [] k = "I8" -> "System.Int64"
         [] k = "U8" -> "System.UInt64"
         [] k = "R4" -> "System.Single"
         [] k = "R8" -> "System.Double"
         [] k = "String" -> "System.String"
         [] k = "Typedbyref" -> "System.TypedReference"
         [] k = "I" -> "System.IntPtr"
         [] k = "U" -> "System.UIntPtr"
         [] k = "Object" -> "System.Object"]

\* C13: full_name of a type of a primitive kind is the framework name
\* documented for the kind (I8 System.Int64, U8 System.UInt64, R4
\* System.Single, and so on for the eighteen kinds)
C13_PrimitiveNames ==
    (Called("Il2CppType::full_name") /\ call.self.ty \in DOMAIN CanonicalNames) =>
        call.ret = CanonicalNames[call.self.ty]

-----------------------------------------------------------------------------
(* Properties of the tables of the global metadata.                        *)

\* the position of the methods table in the header
Methods == 6

\* the row of a methods table read from the bytes of the file at pos, its
\* seven 32-bit and four 16-bit fields in their order
MethodRowAt(pos) ==
    <<Bytes(gdata, pos, 4), Bytes(gdata, pos + 4, 4), Bytes(gdata, pos + 8, 4),
      Bytes(gdata, pos + 12, 4), Bytes(gdata, pos + 16, 4),
      Bytes(gdata, pos + 20, 4), Bytes(gdata, pos + 24, 4),
      Bytes(gdata, pos + 28, 2), Bytes(gdata, pos + 30, 2),
      Bytes(gdata, pos + 32, 2), Bytes(gdata, pos + 34, 2)>>

\* deserialize has returned the tables of a file whose methods table has a
\* recorded length above zero
MethodsRead ==
    /\ Deserialized /\ ValidHeader /\ gmd.kind = "Ok"
    /\ RecordedLen(Methods) # <<0, 0, 0, 0>>

\* C14 as stated: the methods table has floor(L / 32) rows, row k read at
\* offset + 32 k
C14_Rows32 ==
    MethodsRead =>
        /\ Len(gmd.tables[Methods].table) = Val(RecordedLen(Methods)) \div 32
        /\ \A k \in 1..Len(gmd.tables[Methods].table) :
             gmd.tables[Methods].table[k]
                 = MethodRowAt(Val(RecordedOffset(Methods)) + 32 * (k - 1))

\* C14: a methods table of recorded length L > 0 has exactly floor(L / 36)
\* rows, row k being read from the 36 bytes at offset + 36 k as seven 32-bit
\* fields followed by four 16-bit fields; the bytes after the last whole row
\* are ignored
C14_Rows36 ==
    MethodsRead =>
        /\ Len(gmd.tables[Methods].table) = Val(RecordedLen(Methods)) \div 36
        /\ \A k \in 1..Len(gmd.tables[Methods].table) :
             gmd.tables[Methods].table[k]
                 = MethodRowAt(Val(RecordedOffset(Methods)) + 36 * (k - 1))

\* C14, its case: a methods table of 75 bytes was read as two rows that
\* differ, three bytes being left over
C14_Witness ==
    /\ MethodsRead
    /\ RecordedLen(Methods) = <<75, 0, 0, 0>>
    /\ Len(gmd.tables[Methods].table) = 2
    /\ gmd.tables[Methods].table[1] # gmd.tables[Methods].table[2]

\* the position of the string heap in the header
Strings == 3

\* the string heap of the Metadata returned
Heap == result.global_metadata[Strings].data

\* the positions of the heap, from the index of the call on, that hold a NUL
Terminators ==
    IF Small(call.index)
    THEN {j \in Val(call.index)..(Len(Heap) - 1) : Heap[j + 1] = 0}
    ELSE {}

\* the bytes of the heap from the index of the call to the first NUL
Entry ==
    SubSeq(Heap, Val(call.index) + 1,
           CHOOSE j \in Terminators : \A k \in Terminators : j <= k)

\* the recorded window of the string heap ends past the end of the file
HeapPastFile ==
    /\ Deserialized /\ ValidHeader
    /\ RecordedLen(Strings) # <<0, 0, 0, 0>>
    /\ \/ ~Small(RecordedOffset(Strings)) \/ ~Small(RecordedLen(Strings))
       \/ Val(RecordedOffset(Strings)) + Val(RecordedLen(Strings)) > Len(gdata)

\* the heap returned is the recorded window of the file
HeapIsWindow ==
    (Parsed /\ RecordedLen(Strings) # <<0, 0, 0, 0>>) =>
        Heap = Bytes(gdata, Val(RecordedOffset(Strings)), Val(RecordedLen(Strings)))

-----------------------------------------------------------------------------
(* Properties of the reading of the metadata registration.                 *)

\* the positions of an address table that hold the pointer
Positions(addrs, ptr) == {j \in 1..Len(addrs) : addrs[j] = ptr}

\* the pointer that is the data word of the i-th type record
TypePointer(i) == Bytes(relocated, RecordAt(i).value, 8)

\* the file offset of the c-th generic class
ClassAt(c) ==
    make_cur(ElfReader(edata, relocated), mr.value.generic_class_addrs[c]).value

\* the pointers resolved so far, each with the address table its map was
\* built from and the index it was resolved to: the data of the Ptr, Szarray
\* and Genericinst types read, and the type and the class inst of the
\* generic classes read
Resolutions ==
    {[addrs |-> mr.value.type_addrs, ptr |-> TypePointer(i),
      idx |-> mr.value.types[i].data.idx] :
        i \in {i \in 1..Len(mr.value.types) :
                 mr.value.types[i].ty \in {"Ptr", "Szarray"}}}
    \cup {[addrs |-> mr.value.generic_class_addrs, ptr |-> TypePointer(i),
           idx |-> mr.value.types[i].data.idx] :
             i \in {i \in 1..Len(mr.value.types) :
                      mr.value.types[i].ty = "Genericinst"}}
    \cup {[addrs |-> mr.value.type_addrs, ptr |-> Bytes(relocated, ClassAt(c), 8),
           idx |-> mr.value.generic_classes[c].type_index] :
             c \in 1..Len(mr.value.generic_classes)}
    \cup {[addrs |-> mr.value.generic_inst_addrs,
           ptr |-> Bytes(relocated, ClassAt(c) + 8, 8),
           idx |-> mr.value.generic_classes[c].context.class_inst_idx.idx] :
             c \in {c \in 1..Len(mr.value.generic_classes) :
                      mr.value.generic_classes[c].context.class_inst_idx.some}}

\* the address of every entry of the table is in the map
Complete(map, addrs) == \A j \in 1..Len(addrs) : addrs[j] \in DOMAIN map

\* the type map and the generic inst map are complete in every state of the
\* loops, the first generic class included, and the generic class map is
\* complete from the first type on
MapsBeforeBodies ==
    TypesInReach =>
        /\ Complete(mr.value.type_map, mr.value.type_addrs)
        /\ Complete(mr.value.generic_inst_map, mr.value.generic_inst_addrs)
        /\ CurrentLoop(mr.value) # "generic_classes" =>
               Complete(mr.value.generic_class_map, mr.value.generic_class_addrs)

\* C16 as stated: the maps are complete before the bodies are read and a
\* pointer at the entry at position j resolves to j, for every j
C16_EveryPosition ==
    /\ MapsBeforeBodies
    /\ TypesInReach =>
           \A r \in Resolutions :
               \A j \in Positions(r.addrs, r.ptr) : r.idx = j - 1

\* C16: the type map and the generic inst map hold every entry of their
\* tables before the first generic class is read, and the generic class map
\* holds every generic class before the first type is read; a pointer
\* resolves to the index of the last position of the table that holds its
\* address (the position j it points at when no address is listed twice),
\* forward and self references included, and table_addresses[index] = pointer
C16_LastPosition ==
    /\ MapsBeforeBodies
    /\ TypesInReach =>
           \A r \in Resolutions :
               /\ r.idx + 1 \in Positions(r.addrs, r.ptr)
               /\ \A j \in Positions(r.addrs, r.ptr) : j <= r.idx + 1

\* C16, its case: in one type table a Ptr type that points at itself and a
\* Szarray type that points at the record after it were resolved
C16_Witness ==
    /\ TypesInReach
    /\ \E i \in 1..Len(mr.value.types) :
          /\ mr.value.types[i].ty = "Ptr"
          /\ mr.value.types[i].data.idx = i - 1
    /\ \E i \in 1..Len(mr.value.types) :
          /\ mr.value.types[i].ty = "Szarray"
          /\ mr.value.types[i].data.idx > i - 1
    /\ mr.value.generic_classes # <<>>

\* the type records read whose kind byte is Array (0x14)
ArrayRecords == {i \in 1..Len(mr.value.types) : KindByte(i) = 20}

\* those of them that are the first to hold their pointer, walking the type
\* table in its order
FirstReferences ==
    {i \in ArrayRecords :
        \A k \in ArrayRecords : k < i => TypePointer(k) # TypePointer(i)}

\* the number of array types referenced before the one of the array record i
\* was first referenced
DiscoveryRank(i) ==
    Cardinality({k \in FirstReferences :
                    \E f \in FirstReferences :
                        TypePointer(f) = TypePointer(i) /\ k < f})

\* the file offset of the array type a pointer names
ArrayTypeOffset(ptr) == vaddr_conv(edata, ptr).value

\* C17: at every point of the type pass array_types has exactly one row per
\* distinct pointer among the Array records read, the rows standing in the
\* order in which the pointers are first met in the on-disk order of the type
\* table; an Array type holds the index of its pointer's row, so two Array
\* types with one pointer hold one index; the index of a pointer is fixed by
\* the records before its first reference, so no later read changes or
\* reuses it
C17_ArrayTypes ==
    TypesInReach =>
        /\ Len(mr.value.array_types) = Cardinality(FirstReferences)
        /\ DOMAIN mr.value.array_type_map = {TypePointer(i) : i \in ArrayRecords}
        /\ \A i \in ArrayRecords :
             /\ mr.value.types[i].data = [tag |-> "ArrayType", idx |-> DiscoveryRank(i)]
             /\ mr.value.array_type_map[TypePointer(i)] = DiscoveryRank(i)
             /\ mr.value.array_types[DiscoveryRank(i) + 1].rank
                    = relocated[ArrayTypeOffset(TypePointer(i)) + 9]
             /\ mr.value.array_types[DiscoveryRank(i) + 1].elem_ty
                    = mr.value.type_map[
                          Bytes(relocated, ArrayTypeOffset(TypePointer(i)), 8)]

\* C17, its case: three Array records, the first and the third with one
\* pointer and the second with another, gave two rows of different rank
C17_Witness ==
    /\ Parsed /\ mr.kind = "Ok"
    /\ Cardinality(ArrayRecords) = 3
    /\ Len(mr.value.array_types) = 2
    /\ mr.value.array_types[1].rank # mr.value.array_types[2].rank
    /\ \E i, j, k \in ArrayRecords :
          /\ i < j /\ j < k
          /\ mr.value.types[i].data.idx = 0
          /\ mr.value.types[j].data.idx = 1
          /\ mr.value.types[k].data.idx = 0

-----------------------------------------------------------------------------
(* Properties of the data of a runtime type.                               *)

\* the kind bytes of Ptr and Szarray, of Var and Mvar, of Array and of
\* Genericinst
PointerKinds == {15, 29}

ParameterKinds == {19, 30}

\* C18: the data of every type read is resolved from the 8-byte word of its
\* record by the kind byte: Ptr and Szarray hold an index of types whose
\* address is the word; Var and Mvar a generic parameter index that is the
\* low 32 bits of the word; Array an index of array_types, of the row read
\* at the word; Genericinst an index of generic_classes whose address is the
\* word; every other kind a type definition index that is the low 32 bits
\* of the word
C18_DataByKind ==
    TypesInReach =>
        \A i \in 1..Len(mr.value.types) :
            CASE KindByte(i) \in PointerKinds ->
                   /\ mr.value.types[i].data.tag = "TypeIndex"
                   /\ mr.value.types[i].data.idx + 1 \in
                          Positions(mr.value.type_addrs, TypePointer(i))
              [] KindByte(i) \in ParameterKinds ->
                   mr.value.types[i].data =
                       [tag |-> "GenericParameterIndex",
                        idx |-> SubSeq(TypePointer(i), 1, 4)]
              [] KindByte(i) = 20 ->
                   /\ mr.value.types[i].data.tag = "ArrayType"
                   /\ mr.value.types[i].data.idx < Len(mr.value.array_types)
                   /\ mr.value.array_types[mr.value.types[i].data.idx + 1].rank
                          = relocated[ArrayTypeOffset(TypePointer(i)) + 9]
              [] KindByte(i) = 21 ->
                   /\ mr.value.types[i].data.tag = "GenericClassIndex"
                   /\ mr.value.types[i].data.idx + 1 \in
                          Positions(mr.value.generic_class_addrs, TypePointer(i))
              [] OTHER ->
                   mr.value.types[i].data =
                       [tag |-> "TypeDefinitionIndex",
                        idx |-> SubSeq(TypePointer(i), 1, 4)]

\* C18, its case: a parse read a type of each of the five groups, the Mvar one
\* from a word whose high 32 bits are not zero
C18_Witness ==
    /\ Parsed /\ mr.kind = "Ok"
    /\ \A tag \in {"TypeIndex", "GenericParameterIndex", "ArrayType",
                    "GenericClassIndex", "TypeDefinitionIndex"} :
          \E i \in 1..Len(mr.value.types) : mr.value.types[i].data.tag = tag
    /\ \E i \in 1..Len(mr.value.types) :
          /\ KindByte(i) = 29
          /\ mr.value.types[i].data.idx + 1 \in
                Positions(mr.value.type_addrs, TypePointer(i))
    /\ \E i \in 1..Len(mr.value.types) :
          /\ KindByte(i) = 30
          /\ SubSeq(TypePointer(i), 5, 8) # <<0, 0, 0, 0>>
          /\ mr.value.types[i].data.idx = SubSeq(TypePointer(i), 1, 4)

-----------------------------------------------------------------------------
(* Properties of the field offsets.                                        *)

\* the field offset pointers of the metadata registration, as read from it
FieldOffsetPtrs == mr.value.field_offset_ptrs

\* the field count of the i-th type definition of the global metadata that
\* parse returned
FieldCount(i) ==
    Val(GlobalTable(result.global_metadata, "type_definitions").table[i][FieldCountField])

\* the k-th 32-bit value at the i-th field offset pointer in the relocated
\* bytes
OffsetCell(i, k) ==
    Bytes(relocated, vaddr_conv(edata, FieldOffsetPtrs[i]).value + 4 * (k - 1), 4)

\* C19: after a parse that returned Ok, field_offsets has one entry per field
\* offset pointer of the registration, in their order; the entry of a null
\* pointer is empty, and the entry of any other pointer holds exactly as
\* many 32-bit values as the field_count of the type definition at the same
\* position of the global metadata, read one after the other at the pointer
\* in the relocated bytes
C19_FieldOffsets ==
    Parsed =>
        /\ Len(Graph.field_offsets) = Len(FieldOffsetPtrs)
        /\ \A i \in 1..Len(FieldOffsetPtrs) :
             IF FieldOffsetPtrs[i] = LE(0, 8)
             THEN Graph.field_offsets[i] = <<>>
             ELSE /\ Len(Graph.field_offsets[i]) = FieldCount(i)
                  /\ \A k \in 1..FieldCount(i) :
                       Graph.field_offsets[i][k] = OffsetCell(i, k)

\* C19, its case: two pointers that are not null gave two and three values,
\* the first of them from cells a relocation had filled
C19_Witness ==
    /\ Parsed
    /\ Len(FieldOffsetPtrs) = 2
    /\ \A i \in 1..2 : FieldOffsetPtrs[i] # LE(0, 8)
    /\ Len(Graph.field_offsets[1]) = 2 /\ Len(Graph.field_offsets[2]) = 3
    /\ Graph.field_offsets[1][1] # Bytes(edata.data, Val(FieldOffsetPtrs[1]) - V(0), 4)
    /\ Graph.field_offsets[1] # SubSeq(Graph.field_offsets[2], 1, 2)

-----------------------------------------------------------------------------
(* Properties of the nullable counted array.                               *)

\* Il2CppCodeRegistration::read has returned
CodeRead == roots # None /\ pc # "code_registration"

\* the file offsets of the code registration, of its module address array
\* (the tenth member, 128 bytes in) and of its first module
CodeRegistrationAt == vaddr_conv(edata, roots.cr)

ModuleTableAt ==
    IF CodeRegistrationAt.kind # "Ok" THEN CodeRegistrationAt
    ELSE vaddr_conv(edata, Bytes(relocated, CodeRegistrationAt.value + 128, 8))

ModuleAt ==
    IF ModuleTableAt.kind # "Ok" THEN ModuleTableAt
    ELSE vaddr_conv(edata, Bytes(relocated, ModuleTableAt.value, 8))

\* the read of the code registration came to the first module
ModuleReached == CodeRead /\ ModuleAt.kind = "Ok"

\* the count and the pointer of the module's method pointers, which follow
\* its name
MethodCount == Val(Bytes(relocated, ModuleAt.value + 8, 4))

MethodPointer == Bytes(relocated, ModuleAt.value + 16, 8)

\* the count and the pointer of the generic method pointers, the second
\* member of the code registration
GenericMethodCount == Val(Bytes(relocated, CodeRegistrationAt.value + 16, 4))

GenericMethodPointer == Bytes(relocated, CodeRegistrationAt.value + 24, 8)

\* the pointer lies in [bss.address, bss.address + bss.size)
InBss(ptr) ==
    /\ edata.bss.present
    /\ Small(ptr)
    /\ edata.bss.address <= Val(ptr)
    /\ Val(ptr) < edata.bss.address + edata.bss.size

\* count u64 as they lie one after the other at the pointer in the
\* relocated bytes
WordsAt(ptr, count) ==
    [i \in 1..count |->
       Bytes(relocated, vaddr_conv(edata, ptr).value + 8 * (i - 1), 8)]

\* C20: when the pointer of the module's method pointers lies in .bss the
\* array is count zero entries, whatever the file holds there, and the
\* pointer is not converted (a pointer no segment maps does not fail the
\* read); when it does not lie in .bss, or there is no .bss, the array is
\* read as a counted array is: a pointer no segment maps is the VAddrConv
\* error, any other gives the count words at it. No other array is read
\* this way: the member after the name is the only nullable member of the
\* module, the code registration has none, and generic method pointers that
\* lie in .bss are read from the file
C20_NullableArray ==
    /\ {k \in DOMAIN CodeGenModuleSteps :
           CodeGenModuleSteps[k].op = "read_len_arr_nullable"} = {2}
    /\ \A k \in DOMAIN CodeRegistrationSteps :
           CodeRegistrationSteps[k].op # "read_len_arr_nullable"
    /\ ModuleReached =>
          /\ CASE InBss(MethodPointer) ->
                    /\ result # Fail(Err("VAddrConv", MethodPointer))
                    /\ cr # None =>
                          cr.value.code_gen_modules[1].method_pointers
                              = [i \in 1..MethodCount |-> LE(0, 8)]
                 [] vaddr_conv(edata, MethodPointer).kind # "Ok" ->
                    /\ cr = None
                    /\ result = Fail(Err("VAddrConv", MethodPointer))
                 [] OTHER ->
                    cr # None =>
                        cr.value.code_gen_modules[1].method_pointers
                            = WordsAt(MethodPointer, MethodCount)
          /\ cr # None =>
                cr.value.generic_method_pointers
                    = WordsAt(GenericMethodPointer, GenericMethodCount)

\* C20, its cases: method pointers in a .bss no segment maps
C20_Witness ==
    /\ ModuleReached /\ cr # None
    /\ InBss(MethodPointer)
    /\ vaddr_conv(edata, MethodPointer).kind # "Ok"
    /\ cr.value.code_gen_modules[1].method_pointers = <<LE(0, 8), LE(0, 8)>>

\* method pointers and generic method pointers in a .bss that lies over the
\* segment: the first are zero where the file is not, the others are the
\* words of the file
C20_WitnessOverlap ==
    /\ ModuleReached /\ cr # None
    /\ InBss(MethodPointer) /\ InBss(GenericMethodPointer)
    /\ vaddr_conv(edata, MethodPointer).kind = "Ok"
    /\ WordsAt(MethodPointer, MethodCount) # cr.value.code_gen_modules[1].method_pointers
    /\ cr.value.generic_method_pointers # <<LE(0, 8)>>

\* method pointers just past .bss, and method pointers of an image without
\* .bss
C20_WitnessOutside ==
    /\ ModuleReached /\ cr = None
    /\ edata.bss.present
    /\ Val(MethodPointer) = edata.bss.address + edata.bss.size
    /\ result = Fail(Err("VAddrConv", MethodPointer))

C20_WitnessNoBss ==
    /\ ModuleReached /\ cr # None
    /\ ~edata.bss.present
    /\ cr.value.code_gen_modules[1].method_pointers # <<LE(0, 8), LE(0, 8)>>

-----------------------------------------------------------------------------
(* Properties of vaddr_conv.                                               *)

\* the positions of the segments of the call whose range in memory
\* [address, address + size) holds the address of the call
Holding ==
    {i \in 1..Len(call.segments) :
        /\ Small(call.vaddr)
        /\ call.segments[i].address <= Val(call.vaddr)
        /\ Val(call.vaddr) < call.segments[i].address + call.segments[i].size}

\* the first of them in file order
FirstHolding == CHOOSE i \in Holding : \A j \in Holding : i <= j

\* C21: vaddr_conv(v) returns file_start + (v - address) of the first segment
\* in file order whose range in memory holds v, also when a later segment
\* holds v too, and fails with VAddrConv carrying v when no segment holds it
C21_FirstSegment ==
    Returned("vaddr_conv") =>
        IF Holding = {}
        THEN call.ret = Err("VAddrConv", call.vaddr)
        ELSE call.ret = Ok(call.segments[FirstHolding].file_start
                           + (Val(call.vaddr) - call.segments[FirstHolding].address))

\* C21, its case: two segments hold the address, the first of them lying
\* later in the file, and the offset returned is in the first
C21_Witness ==
    /\ Returned("vaddr_conv")
    /\ Cardinality(Holding) = 2
    /\ call.segments[1].file_start > call.segments[2].file_start
    /\ call.ret.kind = "Ok"
    /\ call.ret.value >= call.segments[1].file_start

-----------------------------------------------------------------------------
(* Properties of the bytes the relocation pass returns.                    *)

\* the relative relocations of an ELF, by their positions in its list
RelativeRelocs(elf) ==
    {i \in 1..Len(elf.relocs) : elf.relocs[i].kind = R_AARCH64_RELATIVE}

\* every relative relocation has a target that a segment maps
TargetsMapped(elf) ==
    \A i \in RelativeRelocs(elf) : vaddr_conv(elf, elf.relocs[i].addr).kind = "Ok"

\* the file offset of the target of the i-th relocation
TargetOf(elf, i) == vaddr_conv(elf, elf.relocs[i].addr).value

\* the relative relocations whose 8-byte window holds the b-th byte
Writers(elf, b) ==
    {i \in RelativeRelocs(elf) : b - TargetOf(elf, i) \in 1..8}

\* the last of them in the order of the list
LastWriter(elf, b) ==
    CHOOSE i \in Writers(elf, b) : \A j \in Writers(elf, b) : j <= i

\* the bytes out are the bytes of the ELF outside the windows of its
\* relative relocations
SameOutside(elf, out) ==
    /\ Len(out) >= Len(elf.data)
    /\ \A b \in 1..Len(out) :
          Writers(elf, b) = {} => (b <= Len(elf.data) /\ out[b] = elf.data[b])

\* every window holds the addend of its relocation
EachWindow(elf, out) ==
    \A i \in RelativeRelocs(elf) :
        Bytes(out, TargetOf(elf, i), 8) = elf.relocs[i].addend

\* every byte of a window holds the byte that the last relocation over it
\* has there in its addend
LastWindow(elf, out) ==
    \A b \in 1..Len(out) :
        Writers(elf, b) # {} =>
            out[b] = elf.relocs[LastWriter(elf, b)].addend[
                         b - TargetOf(elf, LastWriter(elf, b))]

\* process_relocations has just returned Ok in parse: the ELF is edata, the
\* bytes returned are relocated
RelocatedInParse == pc = "find_registration"

-----------------------------------------------------------------------------
(* Properties of the register analysis.                                    *)

\* the 8-byte word at an address of the small ELF in its relocated bytes
\* (its one segment maps the file from V(0) on)
WordAtAddress(addr) ==
    Bytes(process_relocations(AnalyzerElf).value, addr - V(0), 8)

\* what one instruction makes of a register map: ADRP sets its register to
\* the label; ADD and LDR with one register that the map holds add the
\* immediate, or load the word at the register's value plus the offset;
\* anything else leaves the map as it is
Applied(map, ins) ==
    CASE ins.op = "ADRP" -> MapPut(map, ins.a, LE(ins.imm, 8))
      [] ins.op = "ADD" /\ ins.a = ins.b /\ ins.a \in DOMAIN map ->
           MapPut(map, ins.a, WordAdd(map[ins.a], LE(ins.imm, 8)).sum)
      [] ins.op = "LDR" /\ ins.a = ins.b /\ ins.a \in DOMAIN map ->
           MapPut(map, ins.a, WordAtAddress(Val(map[ins.a]) + ins.imm))
      [] OTHER -> map

RECURSIVE AppliedAll(_, _, _)
\* the instructions from the i-th on applied in their order
AppliedAll(map, instructions, i) ==
    IF i > Len(instructions) THEN map
    ELSE AppliedAll(Applied(map, instructions[i]), instructions, i + 1)

\* C23: the register map the analyser returns for an instruction sequence is
\* the empty map with the instructions applied in their order: ADRP sets
\* its register to the label, over any earlier value; ADD Xd, Xd, #imm adds
\* imm to the value of Xd; LDR Xd, [Xd, #imm] puts in Xd the little-endian
\* word of the relocated bytes at the address Xd + imm; every other
\* instruction, ADD and LDR with two different registers among them, leaves
\* the map as it is
C23_RegisterMap ==
    (Returned("analyze_reg_rel") /\ call.ret.kind = "Ok") =>
        call.ret.value = AppliedAll(EmptyMap, call.instructions, 1)

\* C23, its case: ADRP, ADD and LDR on one register, read in this order,
\* left in it the word a relocation had written
C23_Witness ==
    /\ Returned("analyze_reg_rel") /\ call.ret.kind = "Ok"
    /\ Len(call.instructions) = 3
    /\ call.instructions[1].op = "ADRP"
    /\ call.instructions[2].op = "ADD" /\ call.instructions[2].a = call.instructions[2].b
    /\ call.instructions[3].op = "LDR" /\ call.instructions[3].a = call.instructions[3].b
    /\ DOMAIN call.ret.value = {1}
    /\ call.ret.value[1] = P(16)
    /\ call.ret.value[1] # Bytes(AnalyzerElf.data, 8, 8)

-----------------------------------------------------------------------------
(* Properties of the errors of the registration discovery.                 *)

\* parse has ended on the ELF given, its global metadata having been read
EndedOn(elf) == pc = "done" /\ edata = elf /\ gmd.kind = "Ok"

\* C24: when the analyser meets LDR Xd, [Xd, #imm] with Xd + imm in no
\* segment, parse returns the error VAddrConv with that address, and when
\* the address is mapped but its 8 bytes are not in the buffer, parse
\* returns an Io error; the program is not aborted
C24_LoadErrors ==
    /\ EndedOn(UnmappedLoadElf) =>
          result = Fail(Err("VAddrConv", LE(V(64) + 8000, 8)))
    /\ EndedOn(ShortLoadElf) =>
          (result.kind = "Err" /\ result.err = "Binary" /\ result.arg.err = "Io")

\* what the code does in both cases: the unwrap of the conversion, and the
\* slice of the relocated bytes, panic
C24_LoadPanics ==
    (EndedOn(UnmappedLoadElf) \/ EndedOn(ShortLoadElf)) => result = Panic

C24_Witness == EndedOn(UnmappedLoadElf) /\ relocated # <<>> /\ roots = None

\* C25: the registration discovery ends with MissingIl2CppInit when no
\* dynamic symbol is named il2cpp_init, with MissingBlr when none of the
\* first 200 instructions of the runtime init is a BLR, and with
\* MissingRegistration when the analysis has no value for the register of
\* the BLR, or for X0 or X1 after the setter; in none of these cases is the
\* program aborted
C25_MissingSteps ==
    /\ EndedOn(NoInitElf) => result = Fail(Err("MissingIl2CppInit", <<>>))
    /\ EndedOn(NoBlrElf) => result = Fail(Err("MissingBlr", <<>>))
    /\ \A elf \in {NoTargetElf, NoX0Elf, NoX1Elf} :
          EndedOn(elf) => result = Fail(Err("MissingRegistration", <<>>))

\* what the code does: the first two errors are returned as stated, and a
\* register without a value is a panic of the index of the register map
C25_MissingPanics ==
    /\ EndedOn(NoInitElf) => result = Fail(Err("MissingIl2CppInit", <<>>))
    /\ EndedOn(NoBlrElf) => result = Fail(Err("MissingBlr", <<>>))
    /\ \A elf \in {NoTargetElf, NoX0Elf, NoX1Elf} :
          EndedOn(elf) => result = Panic

C25_Witness == EndedOn(NoX1Elf) /\ relocated # <<>> /\ roots = None

C25_WitnessNoBlr == EndedOn(NoBlrElf) /\ relocated # <<>> /\ roots = None

-----------------------------------------------------------------------------
(* Properties of nth_bl.                                                   *)

\* the file offset of the start address of the call
StartOffset == Val(call.addr) - V(0)

\* the 4-byte windows of the file from the start on, by their count, and
\* the instruction in the k-th of them, k counted from 0
Windows == IF StartOffset >= Len(call.code) THEN 0
           ELSE (Len(call.code) - StartOffset) \div 4

WindowAt(k) == Decode(Bytes(call.code, StartOffset + 4 * k, 4))

\* the windows that hold the n-th BL of the call, no window before them
\* being rejected by the decoder (one window at most)
NthBl ==
    {k \in 0..(Windows - 1) :
        /\ WindowAt(k).op = "BL"
        /\ Cardinality({j \in 0..k : WindowAt(j).op = "BL"}) = call.n
        /\ \A j \in 0..k : WindowAt(j).op # "undecodable"}

\* a window the decoder rejects comes before the n-th BL and before the end
Rejected ==
    \E k \in 0..(Windows - 1) :
        /\ WindowAt(k).op = "undecodable"
        /\ Cardinality({j \in 0..k : WindowAt(j).op = "BL"}) < call.n

\* C26: nth_bl(start, n) with n >= 1 returns the target of the n-th BL at or
\* after start when the code has one, and otherwise ends with an error once
\* it has come to the end of the bytes
C26_EndsWithError ==
    Returned("nth_bl") =>
        IF NthBl # {}
        THEN \A k \in NthBl : call.ret = Ok(LE(WindowAt(k).imm, 8))
        ELSE call.ret.kind = "Err"

\* what the code does: without an n-th BL it returns an error only for a
\* start that no segment maps and for a window the decoder rejects; when
\* it comes to the end of the bytes, the slice of the next window panics
C26_EndsWithPanic ==
    Returned("nth_bl") =>
        CASE NthBl # {} -> \A k \in NthBl : call.ret = Ok(LE(WindowAt(k).imm, 8))
          [] StartOffset >= Len(call.code) -> call.ret = Err("VAddrConv", call.addr)
          [] Rejected -> call.ret = Err("Disassemble", <<>>)
          [] OTHER -> call.ret = Panic

\* the second BL was found behind another instruction; the scan came to the
\* end of a file with one BL
C26_Witness ==
    /\ Returned("nth_bl") /\ call.n = 2
    /\ NthBl = {2}
    /\ call.ret.kind = "Ok"

C26_WitnessEnd ==
    /\ Returned("nth_bl") /\ call.n = 2
    /\ Windows = 3 /\ ~Rejected /\ NthBl = {}
    /\ call.ret = Panic


-----------------------------------------------------------------------------
(* The name of an array type.                                              *)

\* the pieces of a name written one after the other, a piece of the string
\* heap by its bytes
Named(op) == Called(op) /\ call.ret.kind = "Ok"

\* the number of commas among the pieces that follow the name of the element
CommasIn(name) == Cardinality({i \in 1..Len(name) : name[i] = Text(",")})

\* the rank of the array type of the type that was named
RankOf(self) ==
    result.runtime_metadata.metadata_registration.array_types[self.data.idx + 1].rank

ElementOf(self) ==
    result.runtime_metadata.metadata_registration.types[
        result.runtime_metadata.metadata_registration.array_types[
            self.data.idx + 1].elem_ty + 1]

\* the name of the element of the array type that was named
ElementName(self) ==
    Il2CppType_full_name_in(result, ElementOf(self), CallChain(result) - 1, checks)

\* the name is the element's, "[", as many commas as given, "]"
ArrayNamed(self, commas) ==
    /\ ElementName(self).kind = "Ok"
    /\ call.ret = Ok(ElementName(self).value \o <<Text("[")>>
                     \o [i \in 1..commas |-> Text(",")] \o <<Text("]")>>)

\* C27 as the specification states it: the full name of an array type of
\* rank r whose element has a name is the element's name, "[", r - 1 commas
\* (none when r - 1 is not positive) and "]"
C27_RankCommas ==
    (Called("full_name") /\ call.self.ty = "Array"
       /\ ElementName(call.self).kind = "Ok") =>
        ArrayNamed(call.self, IF RankOf(call.self) >= 1 THEN RankOf(call.self) - 1 ELSE 0)

\* what the code does: r - 1 commas for a rank r of at least 1; for the rank
\* 0 a panic in a build with overflow checks and 255 commas in one without
C27_RankZero ==
    (Called("full_name") /\ call.self.ty = "Array"
       /\ ElementName(call.self).kind = "Ok") =>
        IF RankOf(call.self) >= 1 THEN ArrayNamed(call.self, RankOf(call.self) - 1)
        ELSE IF checks THEN call.ret = Panic
        ELSE ArrayNamed(call.self, 255)

\* an array type of rank 3 was named with two commas, and one of rank 0 left
\* a panic
C27_Witness ==
    /\ Called("full_name") /\ call.self.ty = "Array"
    /\ RankOf(call.self) = 3 /\ ArrayNamed(call.self, 2)

C27_WitnessZero ==
    /\ Called("full_name") /\ call.self.ty = "Array"
    /\ RankOf(call.self) = 0 /\ call.ret = Panic

-----------------------------------------------------------------------------
(* The recursion of full_name over the parsed tables.                      *)

TypesOf(md) == md.runtime_metadata.metadata_registration.types

\* the type a type definition row names first, if it has a declaring type
DeclaringOf(md, row) ==
    IF row[4] # AllOnes(4) /\ Small(row[4]) /\ Val(row[4]) < Len(TypesOf(md))
    THEN {Val(row[4]) + 1} ELSE {}

\* the arguments of the generic instance i
ClassArguments(md, i) ==
    md.runtime_metadata.metadata_registration.generic_insts[
        md.runtime_metadata.metadata_registration.generic_classes[
            TypesOf(md)[i].data.idx + 1].context.class_inst_idx.idx + 1].types

\* the types whose names full_name of the type i asks for
References(md, i) ==
    CASE TypesOf(md)[i].ty \in {"Ptr", "Szarray"} -> {TypesOf(md)[i].data.idx + 1}
      [] TypesOf(md)[i].ty = "Array" ->
           {md.runtime_metadata.metadata_registration.array_types[
                TypesOf(md)[i].data.idx + 1].elem_ty + 1}
      [] TypesOf(md)[i].ty = "Genericinst" ->
           {md.runtime_metadata.metadata_registration.generic_classes[
                TypesOf(md)[i].data.idx + 1].type_index + 1}
           \cup IF md.runtime_metadata.metadata_registration.generic_classes[
                       TypesOf(md)[i].data.idx + 1].context.class_inst_idx.some
                THEN {ClassArguments(md, i)[k] + 1 : k \in 1..Len(ClassArguments(md, i))}
                ELSE {}
      [] TypesOf(md)[i].ty \in {"Class", "Valuetype"} ->
           IF Small(TypesOf(md)[i].data.idx)
              /\ Val(TypesOf(md)[i].data.idx)
                   < Len(GlobalTable(md.global_metadata, "type_definitions").table)
           THEN DeclaringOf(md, GlobalTable(md.global_metadata, "type_definitions").table[
                                    Val(TypesOf(md)[i].data.idx) + 1])
           ELSE {}
      [] OTHER -> {}

RECURSIVE ReachedFrom(_, _, _)
\* the types reached from the set s in at most n more references
ReachedFrom(md, s, n) ==
    IF n = 0 THEN s
    ELSE ReachedFrom(md, s \cup UNION {References(md, i) : i \in s}, n - 1)

\* the types reached from i in one reference or more
Below(md, i) == ReachedFrom(md, References(md, i), Len(TypesOf(md)))

\* no type that the name of i may ask for lies on a cycle of references
Acyclic(md, i) == \A j \in {i} \cup Below(md, i) : j \notin Below(md, j)

\* C30 as the specification states it: full_name of a type of a parsed
\* Metadata never recurses without end, a cycle of references in the type
\* table included
C30_Terminates == Called("full_name") => call.ret.kind # "StackOverflow"

\* what the code does: the call comes back (with a name or a panic) when no
\* cycle of references lies below the type, and a Ptr or Szarray type whose
\* element is the type itself recurses until the stack overflows
C30_CycleOverflows ==
    Called("full_name") =>
        /\ Acyclic(result, call.t) => call.ret.kind \in {"Ok", "Panic"}
        /\ (call.self.ty \in {"Ptr", "Szarray"} /\ call.self.data.idx + 1 = call.t)
             => call.ret = StackOverflow

\* a Ptr type whose element is itself was named, and a generic instance
\* with no cycle below it got its name
C30_Witness ==
    /\ Called("full_name") /\ call.self.ty = "Ptr"
    /\ call.self.data.idx + 1 = call.t /\ call.ret = StackOverflow

C30_WitnessName ==
    /\ Called("full_name") /\ call.self.ty = "Genericinst"
    /\ Acyclic(result, call.t) /\ call.ret.kind = "Ok"

-----------------------------------------------------------------------------
(* Empty counted arrays.                                                   *)

\* C28 as the specification states it: an empty counted array of the
\* registrations, the module or the generic inst is read as the empty array
\* whatever its pointer, and the parse succeeds
C28_EmptyArrayRead ==
    \A off \in CountedArrays, pointer \in StrayPointers :
        EndedOn(EmptyArrayAt(off, pointer)) => result.kind = "Ok"

\* what the code does: read_arr makes its cursor before it looks at the
\* count, so the parse ends with VAddrConv of the pointer
C28_EmptyArrayConverted ==
    \A off \in CountedArrays, pointer \in StrayPointers :
        EndedOn(EmptyArrayAt(off, pointer)) =>
            result = Fail(Err("VAddrConv", pointer))

\* the parse of the image whose generic inst is empty with a null pointer
\* ended with VAddrConv, and the plain image, whose empty arrays point into
\* the segment, was parsed
C28_Witness ==
    EndedOn(EmptyArrayAt(728, LE(0, 8))) /\ result = Fail(Err("VAddrConv", LE(0, 8)))

C28_WitnessMapped == EndedOn(GoodElf) /\ result.kind = "Ok" /\ gdata = GoodGlobal

-----------------------------------------------------------------------------
(* File offsets and the file image of a segment.                           *)

\* the ends of the writes of the relative relocations, and of the file
WriteEnds(elf) ==
    {Len(elf.data)} \cup {TargetOf(elf, i) + 8 : i \in RelativeRelocs(elf)}

\* C29 as the specification states it: an offset that vaddr_conv returns
\* lies in the file range of the segment that matched, and the relocated
\* bytes are as many as the bytes of the ELF
C29_InsideFileRange ==
    /\ (Returned("vaddr_conv") /\ call.ret.kind = "Ok") =>
          /\ call.ret.value >= call.segments[FirstHolding].file_start
          /\ call.ret.value < call.segments[FirstHolding].file_start
                                + call.segments[FirstHolding].file_size
    /\ (Returned("process_relocations") /\ call.once.kind = "Ok") =>
          Len(call.once.value) = Len(call.elf.data)

\* what the code does: the offset is less than the size of the segment in
\* memory past file_start, and the relocated bytes reach to the farthest end
\* of a write, which may lie past the end of the file
C29_InsideMemoryRange ==
    /\ (Returned("vaddr_conv") /\ call.ret.kind = "Ok") =>
          /\ call.ret.value >= call.segments[FirstHolding].file_start
          /\ call.ret.value < call.segments[FirstHolding].file_start
                                + call.segments[FirstHolding].size
    /\ (Returned("process_relocations") /\ call.once.kind = "Ok") =>
          /\ Len(call.once.value) \in WriteEnds(call.elf)
          /\ \A end \in WriteEnds(call.elf) : end <= Len(call.once.value)

\* an address past the file image of a segment that is larger in memory was
\* converted, and a relocation at the last four bytes of a file made the
\* relocated bytes longer than the file
C29_Witness ==
    /\ Returned("vaddr_conv") /\ call.ret.kind = "Ok"
    /\ call.ret.value >= call.segments[FirstHolding].file_start
                           + call.segments[FirstHolding].file_size

C29_WitnessLonger ==
    /\ Returned("process_relocations") /\ call.once.kind = "Ok"
    /\ Len(call.once.value) = Len(call.elf.data) + 4
=============================================================================
